---- MODULE Spec2Model ----
(***************************************************************************)
(* A model of the roles package.  src/roles/role.py: classes are objects   *)
(* with an identity (their index in the class table), a tuple of bases, a  *)
(* class dict and an MRO; RoleType.assign / RoleType.revoke /              *)
(* RoleType.played_by build composite classes through the cached          *)
(* newclass and retag (instance) or twin (clone) the subject.              *)
(* src/roles/context.py: the thread-local stack of context objects and     *)
(* the guard that binds roles while a context is entered.                  *)
(* src/roles/factory.py: the registry that maps a subject's type to a      *)
(* role class.                                                             *)
(***************************************************************************)
EXTENDS Naturals, Integers, Sequences, FiniteSets, TLC

(***************************************************************************)
(* Bounds of the model.                                                    *)
(***************************************************************************)
\* composite classes type() may build in one behaviour of Spec
MaxClasses == 4
\* composite classes type() may build in one behaviour of SpecCalls
MaxCallClasses == 2
\* composite classes type() may build in one behaviour of SpecScope
MaxScopeClasses == 3
\* twins the clone strategy may create in one behaviour
MaxClones == 1
\* nesting depth of played_by scopes
MaxDepth == 2
\* composite classes type() may build in one behaviour of SpecRace
MaxRaceClasses == 4
\* nesting depth of the context scopes of one thread
MaxCtxDepth == 2
\* composite classes type() may build in one behaviour of SpecTransfer
MaxTransferClasses == 8
\* composite classes type() may build in one behaviour of SpecBindings
MaxBindClasses == 3
\* composite classes type() may build in one behaviour of SpecMembers
MaxMemberClasses == 4
\* length of the context stack in one behaviour of SpecBindings
MaxStack == 2

(***************************************************************************)
(* The classes declared in the sources.  A class is identified by its      *)
(* index in the class table; the declared ones fill the first entries.     *)
(***************************************************************************)
Object == 1
Person == 2
A == 3
Biker == 4
Incognito == 5
R == 6
U == 7
PaymentAccount == 8
MoneySink == 9
MoneySource == 10
TransferMoney == 11
ContextClass == 12
B == 13
C == 14
D == 15
MyRole == 16
MySubRole == 17
DictType == 18
ListType == 19
TupleType == 20
Point == 21
Cls == 22
Dict == 23
SimpleRole == 24
Vector == 25
Role == 26
Subrole == 27

\* the metaclasses
TypeMeta == "type"
RoleTypeMeta == "RoleType"
RoleFactoryTypeMeta == "RoleFactoryType"

\* the names every class statement puts in the class dict
ClassBookkeeping == {"__module__", "__doc__"}
\* a class without bases other than object gets these two as well
RootBookkeeping == ClassBookkeeping \cup {"__dict__", "__weakref__"}

StaticClasses ==
    << [name |-> <<"object">>, bases |-> << >>, dict |-> {"__doc__"},
        meta |-> TypeMeta, mro |-> <<Object>>],
       [name |-> <<"Person">>, bases |-> <<Object>>,
        dict |-> RootBookkeeping \cup {"__init__", "am"},
        meta |-> TypeMeta, mro |-> <<Person, Object>>],
       [name |-> <<"A">>, bases |-> <<Object>>,
        dict |-> RootBookkeeping \cup {"__annotations__", "a"},
        meta |-> TypeMeta, mro |-> <<A, Object>>],
       [name |-> <<"Biker">>, bases |-> <<Object>>,
        dict |-> RootBookkeeping \cup {"bike"},
        meta |-> RoleTypeMeta, mro |-> <<Biker, Object>>],
       [name |-> <<"Incognito">>, bases |-> <<Object>>,
        dict |-> RootBookkeeping \cup {"am"},
        meta |-> RoleTypeMeta, mro |-> <<Incognito, Object>>],
       [name |-> <<"R">>, bases |-> <<Object>>,
        dict |-> RootBookkeeping,
        meta |-> RoleTypeMeta, mro |-> <<R, Object>>],
       [name |-> <<"U">>, bases |-> <<R>>,
        dict |-> ClassBookkeeping \cup {"b"},
        meta |-> RoleTypeMeta, mro |-> <<U, R, Object>>],
       [name |-> <<"PaymentAccount">>, bases |-> <<Object>>,
        dict |-> RootBookkeeping \cup {"__init__", "withdraw", "deposit"},
        meta |-> TypeMeta, mro |-> <<PaymentAccount, Object>>],
       [name |-> <<"MoneySink">>, bases |-> <<Object>>,
        dict |-> RootBookkeeping \cup {"receive"},
        meta |-> RoleTypeMeta, mro |-> <<MoneySink, Object>>],
       [name |-> <<"MoneySource">>, bases |-> <<Object>>,
        dict |-> RootBookkeeping \cup {"transfer_to"},
        meta |-> RoleTypeMeta, mro |-> <<MoneySource, Object>>],
       [name |-> <<"TransferMoney">>, bases |-> <<Object>>,
        dict |-> RootBookkeeping \cup {"__init__", "perform_transfer"},
        meta |-> TypeMeta, mro |-> <<TransferMoney, Object>>],
       [name |-> <<"ContextClass">>, bases |-> <<Object>>,
        dict |-> RootBookkeeping \cup {"__annotations__", "doit"},
        meta |-> TypeMeta, mro |-> <<ContextClass, Object>>],
       [name |-> <<"B">>, bases |-> <<A>>, dict |-> ClassBookkeeping,
        meta |-> TypeMeta, mro |-> <<B, A, Object>>],
       [name |-> <<"C">>, bases |-> <<B>>, dict |-> ClassBookkeeping,
        meta |-> TypeMeta, mro |-> <<C, B, A, Object>>],
       [name |-> <<"D">>, bases |-> <<Object>>, dict |-> RootBookkeeping,
        meta |-> TypeMeta, mro |-> <<D, Object>>],
       [name |-> <<"MyRole">>, bases |-> <<Object>>, dict |-> RootBookkeeping,
        meta |-> RoleTypeMeta, mro |-> <<MyRole, Object>>],
       [name |-> <<"MySubRole">>, bases |-> <<MyRole>>, dict |-> ClassBookkeeping,
        meta |-> RoleTypeMeta, mro |-> <<MySubRole, MyRole, Object>>],
       [name |-> <<"dict">>, bases |-> <<Object>>,
        dict |-> {"__doc__", "__getitem__", "keys"},
        meta |-> TypeMeta, mro |-> <<DictType, Object>>],
       [name |-> <<"list">>, bases |-> <<Object>>,
        dict |-> {"__doc__", "__getitem__", "append"},
        meta |-> TypeMeta, mro |-> <<ListType, Object>>],
       [name |-> <<"tuple">>, bases |-> <<Object>>,
        dict |-> {"__doc__", "__getitem__", "count"},
        meta |-> TypeMeta, mro |-> <<TupleType, Object>>],
       [name |-> <<"Point">>, bases |-> <<TupleType>>,
        dict |-> ClassBookkeeping \cup {"__slots__", "__new__", "_fields", "x", "y"},
        meta |-> TypeMeta, mro |-> <<Point, TupleType, Object>>],
       [name |-> <<"Cls">>, bases |-> <<Object>>,
        dict |-> ClassBookkeeping \cup {"__slots__", "__init__", "a", "b"},
        meta |-> TypeMeta, mro |-> <<Cls, Object>>],
       [name |-> <<"Dict">>, bases |-> <<DictType>>,
        dict |-> RootBookkeeping,
        meta |-> TypeMeta, mro |-> <<Dict, DictType, Object>>],
       [name |-> <<"SimpleRole">>, bases |-> <<Object>>,
        dict |-> ClassBookkeeping \cup {"__slots__", "inrole"},
        meta |-> RoleTypeMeta, mro |-> <<SimpleRole, Object>>],
       [name |-> <<"Vector">>, bases |-> <<Object>>,
        dict |-> RootBookkeeping,
        meta |-> RoleTypeMeta, mro |-> <<Vector, Object>>],
       [name |-> <<"Role">>, bases |-> <<Object>>,
        dict |-> RootBookkeeping \cup {"func"},
        meta |-> RoleTypeMeta, mro |-> <<Role, Object>>],
       [name |-> <<"Subrole">>, bases |-> <<Role>>, dict |-> ClassBookkeeping,
        meta |-> RoleTypeMeta, mro |-> <<Subrole, Role, Object>>] >>

\* the types the interpreter provides: their instances have no instance
\* dict and cannot be given another class
BuiltinTypes == {Object, DictType, ListType, TupleType}

\* the value of __slots__ in the class statements that have one
SlotsDeclared == (Point :> {}) @@ (Cls :> {"a", "b"}) @@ (SimpleRole :> {})

NStatic == Len(StaticClasses)

\* the roles a caller can assign and the types it can instantiate
Roles == {Biker, Incognito, R, U}
BaseTypes == {Person, A}

\* the application strategies
Methods == {"instance", "clone"}

\* the subjects a caller constructs
NSubjects == 2

\* the per-instance field a caller writes and the values it stores
FieldNames == {"b"}
Values == {1, 2}

\* the threads: the main thread and the one the caller starts
Threads == {1, 2}

\* a thread that is not inside a call
Idle == [pc |-> "idle", role |-> 0, subj |-> 0, key |-> << >>]

\* the roles @assignto is applied to, and a role before its first registration
FactoryRoles == {MyRole}
NoFactory == [exists |-> FALSE, factory |-> [k \in {} |-> 0], strict |-> FALSE,
              direct |-> FALSE]

VARIABLES
    classes,    \* the class table: every class object that exists
    cache,      \* newclass.cache: key <<self, cls, rolebases>> -> class
    objects,    \* the subjects: [cls, dict] (dict: index into dicts)
    dicts,      \* the instance dicts (state blocks)
    scopes,     \* the open played_by generators, innermost last
    base,       \* history: the type each subject was constructed with
    oplog,      \* history: the effective calls of the subject's current excursion
                \* from its base type, each with the type before and after
    last,       \* history: the call that was made last, with the subject's
                \* type before it, what it returned and what it raised
    stacks,     \* context.__dict__["__stack"], one list per thread
    guards,     \* the with statements each thread is in: the ManagedContext
                \* objects entered and not yet exited, innermost last, each
                \* with (history) the calls on roles its enter made and the
                \* stack it found
    pcs,        \* where each thread is in a call of assign that it makes
                \* concurrently with the other thread
    factories,  \* per role: whether it has a _factory dict, the dict (type ->
                \* role class), _strict, and (history) whether the role itself
                \* was ever registered for a type
    lookups     \* lookup.cache: key <<self, cls>> -> role class

vars == <<classes, cache, objects, dicts, scopes, base, oplog, last, stacks,
          guards, pcs, factories, lookups>>

\* the state of the context module and of the threads, which the calls on
\* roles made by one caller leave alone
aux == <<stacks, guards, pcs, factories, lookups>>

(***************************************************************************)
(* Sequence helpers.                                                       *)
(***************************************************************************)
Range(s) == {s[i] : i \in DOMAIN s}

RECURSIVE Filter(_, _)
\* the elements of s that are not x, in order
Filter(s, x) ==
    IF s = << >> THEN << >>
    ELSE IF Head(s) = x THEN Filter(Tail(s), x)
         ELSE <<Head(s)>> \o Filter(Tail(s), x)

RECURSIVE Flatten(_)
Flatten(ss) == IF ss = << >> THEN << >> ELSE Head(ss) \o Flatten(Tail(ss))

(***************************************************************************)
(* type.__mro__: the C3 linearization computed by type() at class          *)
(* creation.                                                               *)
(***************************************************************************)
NonEmpty(seqs) == SelectSeq(seqs, LAMBDA s : s # << >>)

\* candidate heads: the head of a list that is in the tail of no list
GoodHead(seqs, i) ==
    \A j \in DOMAIN seqs : Head(seqs[i]) \notin Range(Tail(seqs[j]))

RECURSIVE Merge(_)
\* the merge of C3: [ok, mro]
Merge(seqs0) ==
    LET seqs == NonEmpty(seqs0) IN
    IF seqs = << >> THEN [ok |-> TRUE, mro |-> << >>]
    ELSE LET good == {i \in DOMAIN seqs : GoodHead(seqs, i)} IN
         IF good = {} THEN [ok |-> FALSE, mro |-> << >>]
         ELSE LET i == CHOOSE k \in good : \A m \in good : k <= m
                  h == Head(seqs[i])
                  rest == Merge([j \in DOMAIN seqs |-> Filter(seqs[j], h)])
              IN [ok |-> rest.ok, mro |-> <<h>> \o rest.mro]

\* the linearization of a class with the given bases, the class itself excluded
Linearize(tbl, bases) ==
    Merge([i \in DOMAIN bases |-> tbl[bases[i]].mro] \o <<bases>>)

(***************************************************************************)
(* Class introspection.                                                    *)
(***************************************************************************)
IsSubclass(tbl, cls, self) == self \in Range(tbl[cls].mro)

IsInstance(tbl, objs, o, self) == IsSubclass(tbl, objs[o].cls, self)

EXCLUDED == {"__doc__", "__module__", "__dict__", "__weakref__",
             "__metaclass__", "__slots__"}

\* the prefix of the MRO walked by class_fields: it stops at object
MroUntilObject(mro) ==
    LET stop == {i \in DOMAIN mro : mro[i] = Object}
        n == IF stop = {} THEN Len(mro)
             ELSE (CHOOSE i \in stop : \A j \in stop : i <= j) - 1
    IN SubSeq(mro, 1, n)

class_fields_unfiltered(tbl, cls) ==
    UNION {tbl[c].dict : c \in Range(MroUntilObject(tbl[cls].mro))}

class_fields(tbl, cls) ==
    UNION {tbl[c].dict : c \in Range(MroUntilObject(tbl[cls].mro))} \ EXCLUDED

\* subj.__dict__.keys()
instance_fields(objs, dcts, o) == DOMAIN dcts[objs[o].dict]

\* a variant that looks at the first component, the class the subject was
\* constructed with, and not at the roles applied since
overrides_base_only(tbl, objs, dcts, self, o) ==
    class_fields(tbl, self)
        \cap (class_fields(tbl, IF objs[o].cls <= Len(StaticClasses) THEN objs[o].cls
                                ELSE Head(tbl[objs[o].cls].bases))
                \cup instance_fields(objs, dcts, o))

overrides(tbl, objs, dcts, self, o) ==
    class_fields(tbl, self)
        \cap (class_fields(tbl, objs[o].cls) \cup instance_fields(objs, dcts, o))

\* "+".join(names): the component names in order, one after the other
newclassname(tbl, bases) == Flatten([i \in DOMAIN bases |-> tbl[bases[i]].name])

\* cls.__slots__ resolves through the MRO
HasSlots(tbl, cls) == \E c \in Range(tbl[cls].mro) : "__slots__" \in tbl[c].dict

\* the names in the __slots__ of the class itself: a class built by newclass
\* has nothing in its dict but the bookkeeping and its slots
OwnSlots(tbl, c) ==
    IF "__slots__" \notin tbl[c].dict THEN {}
    ELSE IF c <= NStatic THEN SlotsDeclared[c]
         ELSE tbl[c].dict \ (ClassBookkeeping \cup {"__slots__"})

\* the value of cls.__slots__: that of the first class of the MRO with one
SlotsValue(tbl, cls) ==
    LET mro == tbl[cls].mro
        has == {i \in DOMAIN mro : "__slots__" \in tbl[mro[i]].dict}
    IN IF has = {} THEN {}
       ELSE OwnSlots(tbl, mro[CHOOSE i \in has : \A j \in has : i <= j])

(***************************************************************************)
(* The storage layout of the instances of a class, as the interpreter      *)
(* derives it when the class is created: the class that fixes the slots    *)
(* (the class itself when it declares slots of its own, else the one its   *)
(* bases share apart from object), and whether instances carry an instance *)
(* dict (a class without __slots__ adds one, a class with __slots__ takes  *)
(* it from any base that has one).                                         *)
(***************************************************************************)
RECURSIVE SolidBase(_, _)
SolidBase(tbl, c) ==
    IF c \in BuiltinTypes \/ OwnSlots(tbl, c) # {} THEN c
    ELSE LET ss == {SolidBase(tbl, b) : b \in Range(tbl[c].bases)} \ {Object}
         IN IF ss = {} THEN Object ELSE CHOOSE x \in ss : TRUE

RECURSIVE HasDict(_, _)
HasDict(tbl, c) ==
    IF c \in BuiltinTypes THEN FALSE
    ELSE \/ "__slots__" \notin tbl[c].dict
         \/ \E b \in Range(tbl[c].bases) : HasDict(tbl, b)

\* a variant that lets every object take every class
RetaggableAlways(tbl, old, new) == TRUE

\* whether subj.__class__ = new is accepted for an instance of old
Retaggable(tbl, old, new) ==
    /\ old \notin BuiltinTypes
    /\ new \notin BuiltinTypes
    /\ SolidBase(tbl, old) = SolidBase(tbl, new)
    /\ HasDict(tbl, old) = HasDict(tbl, new)

\* whether cls.__new__(cls) needs more arguments: Point.__new__(cls, x, y)
NewNeedsArguments(tbl, cls) == Point \in Range(tbl[cls].mro)

\* isinstance(cls, RoleType): RoleFactoryType is a subclass of RoleType
IsRoleType(meta) == meta \in {RoleTypeMeta, RoleFactoryTypeMeta}

\* the metaclass type() derives for a class with these bases: the most
\* derived of the metaclasses of the bases
DerivedMeta(tbl, bases) ==
    IF \E i \in DOMAIN bases : tbl[bases[i]].meta = RoleFactoryTypeMeta
    THEN RoleFactoryTypeMeta
    ELSE IF \E i \in DOMAIN bases : tbl[bases[i]].meta = RoleTypeMeta
         THEN RoleTypeMeta ELSE TypeMeta

(***************************************************************************)
(* RoleType.newclass and the cached decorator.  An outcome is              *)
(* [err, id, classes, cache]: the class (its index) or the error raised,   *)
(* and the class table and cache afterwards.                               *)
(***************************************************************************)
\* the body of newclass: type(name, rolebases, d)
newclass(tbl, self, cls, rolebases) ==
    LET lin == Linearize(tbl, rolebases)
        id == Len(tbl) + 1
        d == ClassBookkeeping
                \cup (IF HasSlots(tbl, cls)
                      THEN {"__slots__"} \cup SlotsValue(tbl, cls) ELSE {})
    IN IF lin.ok
       THEN [err |-> "none", id |-> id,
             classes |-> Append(tbl, [name |-> newclassname(tbl, rolebases),
                                      bases |-> rolebases,
                                      dict |-> d,
                                      meta |-> DerivedMeta(tbl, rolebases),
                                      mro |-> <<id>> \o lin.mro])]
       ELSE [err |-> "mro", id |-> 0, classes |-> tbl]

\* a wrapper that never stores: every call builds
uncached_newclass(tbl, cch, self, cls, rolebases) ==
    LET built == newclass(tbl, self, cls, rolebases)
    IN [err |-> built.err, id |-> built.id, classes |-> built.classes, cache |-> cch]

\* cached(newclass): the key is the whole argument tuple
cached_newclass(tbl, cch, self, cls, rolebases) ==
    LET key == <<self, cls, rolebases>> IN
    IF key \in DOMAIN cch
    THEN [err |-> "none", id |-> cch[key], classes |-> tbl, cache |-> cch]
    ELSE LET built == newclass(tbl, self, cls, rolebases) IN
         IF built.err = "none"
         THEN [err |-> "none", id |-> built.id, classes |-> built.classes,
               cache |-> cch @@ (key :> built.id)]
         ELSE [err |-> built.err, id |-> 0, classes |-> tbl, cache |-> cch]

(***************************************************************************)
(* The application strategies: [objects, result, err].  The interpreter    *)
(* raises TypeError ("layout") for a class assignment it does not accept   *)
(* and for a __new__ that misses arguments ("new"), and AttributeError     *)
(* ("attribute") for subj.__dict__ of an object without instance dict.     *)
(***************************************************************************)
\* subj.__class__ = rolecls; return subj
instance(tbl, objs, rolecls, o) ==
    IF Retaggable(tbl, objs[o].cls, rolecls)
    THEN [objects |-> [objs EXCEPT ![o].cls = rolecls], result |-> o,
          err |-> "none"]
    ELSE [objects |-> objs, result |-> 0, err |-> "layout"]

\* a variant that retags the value it is given
clone_retagging(tbl, objs, rolecls, o) == instance(tbl, objs, rolecls, o)

\* a new object of rolecls on the same instance dict
clone(tbl, objs, rolecls, o) ==
    IF NewNeedsArguments(tbl, rolecls)
    THEN [objects |-> objs, result |-> 0, err |-> "new"]
    ELSE IF ~HasDict(tbl, objs[o].cls) \/ ~HasDict(tbl, rolecls)
         THEN [objects |-> objs, result |-> 0, err |-> "attribute"]
         ELSE [objects |-> Append(objs, [cls |-> rolecls, dict |-> objs[o].dict]),
               result |-> Len(objs) + 1, err |-> "none"]

Apply(method, tbl, objs, rolecls, o) ==
    IF method = "instance" THEN instance(tbl, objs, rolecls, o)
    ELSE clone(tbl, objs, rolecls, o)

(***************************************************************************)
(* RoleType.assign and RoleType.revoke, evaluated in a state st =          *)
(* [classes, cache, objects, dicts].  An outcome is [classes, cache,       *)
(* objects, result, err, names, active, changed]: the state afterwards,    *)
(* the value returned (0 when the call raised), the error raised with the  *)
(* names it lists, whether the role was active on entry and whether a      *)
(* strategy was applied.                                                   *)
(***************************************************************************)
Unchanged(st, o, act, e, ns) ==
    [classes |-> st.classes, cache |-> st.cache, objects |-> st.objects,
     result |-> IF e = "none" THEN o ELSE 0,
     err |-> e, names |-> ns, active |-> act, changed |-> FALSE]

Applied(st, nc, method, o, act) ==
    LET ap == Apply(method, nc.classes, st.objects, nc.id, o)
    IN [classes |-> nc.classes, cache |-> nc.cache, objects |-> ap.objects,
        result |-> ap.result, err |-> ap.err, names |-> {}, active |-> act,
        changed |-> ap.err = "none"]

\* a variant that puts the new role in front of the roles applied before
AssignBasesFront(st, cls, self) ==
    IF IsRoleType(st.classes[cls].meta)
    THEN <<Head(st.classes[cls].bases), self>> \o Tail(st.classes[cls].bases)
    ELSE <<cls, self>>

\* the component list of the class assign asks for
AssignBases(st, cls, self) ==
    IF IsRoleType(st.classes[cls].meta)
    THEN st.classes[cls].bases \o <<self>>
    ELSE <<cls, self>>

\* a variant that retags before it checks for overridden members
assign_apply_first(st, self, o, method) ==
    LET cls == st.objects[o].cls IN
    IF IsSubclass(st.classes, cls, self) THEN Unchanged(st, o, TRUE, "none", {})
    ELSE LET ov == overrides(st.classes, st.objects, st.dicts, self, o)
             nc == cached_newclass(st.classes, st.cache, self, cls,
                                   AssignBases(st, cls, self)) IN
         IF nc.err # "none" THEN Unchanged(st, o, FALSE, nc.err, {})
         ELSE IF ov # {}
              THEN [Applied(st, nc, method, o, FALSE) EXCEPT
                        !.result = 0, !.err = "conflict", !.names = ov,
                        !.changed = FALSE]
              ELSE Applied(st, nc, method, o, FALSE)

\* a variant without the early return for a role that is already played
assign_always(st, self, o, method) ==
    LET cls == st.objects[o].cls
        ov == overrides(st.classes, st.objects, st.dicts, self, o) IN
    IF ov # {} THEN Unchanged(st, o, FALSE, "conflict", ov)
    ELSE LET nc == cached_newclass(st.classes, st.cache, self, cls,
                                   AssignBases(st, cls, self)) IN
         IF nc.err # "none" THEN Unchanged(st, o, FALSE, nc.err, {})
         ELSE Applied(st, nc, method, o, FALSE)

assign(st, self, o, method) ==
    LET cls == st.objects[o].cls IN
    IF IsSubclass(st.classes, cls, self) THEN Unchanged(st, o, TRUE, "none", {})
    ELSE LET ov == overrides(st.classes, st.objects, st.dicts, self, o) IN
         IF ov # {} THEN Unchanged(st, o, FALSE, "conflict", ov)
         ELSE LET nc == cached_newclass(st.classes, st.cache, self, cls,
                                        AssignBases(st, cls, self)) IN
              IF nc.err # "none" THEN Unchanged(st, o, FALSE, nc.err, {})
              ELSE Applied(st, nc, method, o, FALSE)

\* a variant that takes off every role
RevokeBasesAll(st, cls, self) == <<Head(st.classes[cls].bases)>>

\* a variant that can only take off the role applied last
RevokeBasesTopOnly(st, cls, self) ==
    LET bs == st.classes[cls].bases IN
    IF bs[Len(bs)] = self THEN SubSeq(bs, 1, Len(bs) - 1) ELSE bs

\* tuple(b for b in cls.__bases__ if b is not self)
RevokeBases(st, cls, self) == Filter(st.classes[cls].bases, self)

\* a variant without the fall back to the original class
RevokeClassAlwaysCached(st, self, cls, rolebases) ==
    cached_newclass(st.classes, st.cache, self, cls, rolebases)

\* the class revoke applies: the cached composite, or the original class
RevokeClass(st, self, cls, rolebases) ==
    IF Len(rolebases) > 1
    THEN cached_newclass(st.classes, st.cache, self, cls, rolebases)
    ELSE [err |-> "none", id |-> rolebases[1], classes |-> st.classes,
          cache |-> st.cache]

\* a variant without the early return for a role that is not played
revoke_unguarded(st, self, o, method) ==
    LET cls == st.objects[o].cls
        nc == RevokeClass(st, self, cls, RevokeBases(st, cls, self)) IN
    IF nc.err # "none" THEN Unchanged(st, o, TRUE, nc.err, {})
    ELSE Applied(st, nc, method, o, TRUE)

revoke(st, self, o, method) ==
    IF ~IsInstance(st.classes, st.objects, o, self)
    THEN Unchanged(st, o, FALSE, "none", {})
    ELSE LET cls == st.objects[o].cls
             nc == RevokeClass(st, self, cls, RevokeBases(st, cls, self)) IN
         IF nc.err # "none" THEN Unchanged(st, o, TRUE, nc.err, {})
         ELSE Applied(st, nc, method, o, TRUE)

\* the state after a call with outcome out
After(st, out) ==
    [classes |-> out.classes, cache |-> out.cache, objects |-> out.objects,
     dicts |-> st.dicts]

\* the current state
Now == [classes |-> classes, cache |-> cache, objects |-> objects, dicts |-> dicts]

(***************************************************************************)
(* Bookkeeping shared by the actions.                                      *)
(***************************************************************************)
\* in a record of a call, 0 stands for no role, no subject, no value returned
Call(op, self, o, method, out, asg, rsd, e) ==
    [op |-> op, role |-> self, subj |-> o, method |-> method,
     before |-> objects[o].cls, result |-> out.result, err |-> e,
     names |-> out.names, assigned |-> asg, raised |-> rsd]

\* the log of the object a strategy produced: a call made on a subject that
\* has its base type starts a new log
NextLog(op, self, o, method, out) ==
    LET entry == [op |-> op, role |-> self, method |-> method,
                  before |-> objects[o].cls,
                  after |-> out.objects[out.result].cls]
    IN IF objects[o].cls = base[o] THEN <<entry>> ELSE Append(oplog[o], entry)

\* the state after a call of assign or revoke with outcome out, in a
\* behaviour that builds at most n composite classes
Commit(op, self, o, method, out, n) ==
    /\ Len(out.classes) <= NStatic + n
    /\ Len(out.objects) <= NSubjects + MaxClones
    /\ classes' = out.classes
    /\ cache' = out.cache
    /\ objects' = out.objects
    /\ UNCHANGED dicts
    /\ IF ~out.changed THEN UNCHANGED <<base, oplog>>
       ELSE IF out.result = o
            THEN /\ UNCHANGED base
                 /\ oplog' = [oplog EXCEPT ![o] = NextLog(op, self, o, method, out)]
            ELSE /\ base' = Append(base, base[o])
                 /\ oplog' = Append(oplog, NextLog(op, self, o, method, out))

Objects == DOMAIN objects

InitDict(cls) == IF cls = Person THEN [n \in {"name"} |-> 1] ELSE [n \in {} |-> 1]

Init ==
    /\ classes = StaticClasses
    /\ cache = [k \in {} |-> 0]
    /\ \E b \in BaseTypes :
          /\ objects = <<[cls |-> Person, dict |-> 1], [cls |-> b, dict |-> 2]>>
          /\ dicts = <<InitDict(Person), InitDict(b)>>
          /\ base = <<Person, b>>
    /\ scopes = << >>
    /\ oplog = << << >>, << >> >>
    /\ last = [op |-> "init", role |-> 0, subj |-> 0, method |-> "instance",
               before |-> Object, result |-> 0, err |-> "none", names |-> {},
               assigned |-> FALSE, raised |-> FALSE]
    /\ stacks = [t \in Threads |-> << >>]
    /\ guards = [t \in Threads |-> << >>]
    /\ pcs = [t \in Threads |-> Idle]
    /\ factories = [r \in FactoryRoles |-> NoFactory]
    /\ lookups = [k \in {} |-> 0]

(***************************************************************************)
(* Composition: in-place assign and revoke on the constructed subjects.    *)
(* The record of the last call is not kept: the logs tell what was done.   *)
(***************************************************************************)
ComposeRoles == {Biker, R, U}

\* role.assign(subj) / role(subj)
AssignInPlace(self, o) ==
    /\ Commit("assign", self, o, "instance", assign(Now, self, o, "instance"), MaxClasses)
    /\ UNCHANGED <<scopes, last, aux>>

\* role.revoke(subj)
RevokeInPlace(self, o) ==
    /\ Commit("revoke", self, o, "instance", revoke(Now, self, o, "instance"), MaxClasses)
    /\ UNCHANGED <<scopes, last, aux>>

Next ==
    \/ \E self \in ComposeRoles, o \in Objects : AssignInPlace(self, o)
    \/ \E self \in ComposeRoles, o \in Objects : RevokeInPlace(self, o)

Spec == Init /\ [][Next]_vars

(***************************************************************************)
(* Calls: assign and revoke with either strategy on the first subject,     *)
(* and writes to its instance fields, each call recorded in last.          *)
(***************************************************************************)
CallSubjects == {1}
CallRoles == {Incognito, R, U}
\* the values the caller holds: the subjects and what clone returned for them
CallValues == CallSubjects \cup {o \in Objects : o > NSubjects}

\* role.assign(subj, method) / role(subj, method)
Assign(self, o, method) ==
    LET out == assign(Now, self, o, method) IN
    /\ Commit("assign", self, o, method, out, MaxCallClasses)
    /\ last' = Call("assign", self, o, method, out, FALSE, FALSE, out.err)
    /\ UNCHANGED <<scopes, aux>>

\* role.revoke(subj, method)
Revoke(self, o, method) ==
    LET out == revoke(Now, self, o, method) IN
    /\ Commit("revoke", self, o, method, out, MaxCallClasses)
    /\ last' = Call("revoke", self, o, method, out, FALSE, FALSE, out.err)
    /\ UNCHANGED <<scopes, aux>>

\* subj.f = v
SetAttr(o, f, v) ==
    LET d == dicts[objects[o].dict]
        out == Unchanged(Now, o, FALSE, "none", {}) IN
    /\ dicts' = [dicts EXCEPT ![objects[o].dict] =
                    [n \in DOMAIN d \cup {f} |-> IF n = f THEN v ELSE d[n]]]
    /\ dicts' # dicts
    /\ last' = Call("setattr", 0, o, "instance", out, FALSE, FALSE, "none")
    /\ UNCHANGED <<classes, cache, objects, scopes, base, oplog, aux>>

NextCalls ==
    \/ \E self \in CallRoles, o \in CallSubjects, m \in Methods : Assign(self, o, m)
    \/ \E self \in CallRoles, o \in CallSubjects, m \in Methods : Revoke(self, o, m)
    \/ \E o \in CallValues, f \in FieldNames, v \in Values : SetAttr(o, f, v)

SpecCalls == Init /\ [][NextCalls]_vars

(***************************************************************************)
(* Cache clear: in-place assign and revoke on the constructed subjects by  *)
(* one caller, who also clears the cache of newclass                       *)
(* (RoleType.newclass.cache.clear(), the dict the cached wrapper keeps).   *)
(***************************************************************************)
ClearRoles == {Biker, R}

\* newclass.cache.clear()
ClearCache ==
    /\ DOMAIN cache # {}
    /\ cache' = [k \in {} |-> 0]
    /\ UNCHANGED <<classes, objects, dicts, scopes, base, oplog, last, aux>>

NextClear ==
    \/ \E self \in ClearRoles, o \in Objects : AssignInPlace(self, o)
    \/ \E self \in ClearRoles, o \in Objects : RevokeInPlace(self, o)
    \/ ClearCache

SpecClear == Init /\ [][NextClear]_vars

(***************************************************************************)
(* Members: in-place assign and revoke of roles that bring members, on the *)
(* first subject, each call recorded in last.  Role and Subrole are the    *)
(* roles of src/perform.py: Subrole inherits func from Role.               *)
(***************************************************************************)
MemberRoles == {Biker, Incognito, Role, Subrole}
MemberSubjects == {1}

\* role.assign(subj)
MemberAssign(self, o) ==
    LET out == assign(Now, self, o, "instance") IN
    /\ Commit("assign", self, o, "instance", out, MaxMemberClasses)
    /\ last' = Call("assign", self, o, "instance", out, FALSE, FALSE, out.err)
    /\ UNCHANGED <<scopes, aux>>

\* role.revoke(subj)
MemberRevoke(self, o) ==
    LET out == revoke(Now, self, o, "instance") IN
    /\ Commit("revoke", self, o, "instance", out, MaxMemberClasses)
    /\ last' = Call("revoke", self, o, "instance", out, FALSE, FALSE, out.err)
    /\ UNCHANGED <<scopes, aux>>

NextMembers ==
    \/ \E self \in MemberRoles, o \in MemberSubjects : MemberAssign(self, o)
    \/ \E self \in MemberRoles, o \in MemberSubjects : MemberRevoke(self, o)

SpecMembers == Init /\ [][NextMembers]_vars

(***************************************************************************)
(* Scopes: played_by on the first subject, with the in-place assign and    *)
(* revoke calls its bodies make.  last records the scope entries and       *)
(* exits; a call made by a body is recorded as such.                       *)
(***************************************************************************)
ScopeRoles == {R, U}
ScopeSubject == 1

\* an open scope: the role, the subject, whether the generator took the
\* assigning branch, and (history) the subject's type when it was entered
Frame(self, o, asg) ==
    [role |-> self, subj |-> o, assigned |-> asg, before |-> objects[o].cls]

\* a variant without the test for a role that is already played
PlayedByEnterUnchecked(self, o) ==
    /\ Len(scopes) < MaxDepth
    /\ UNCHANGED aux
    /\ LET out == assign(Now, self, o, "instance") IN
       /\ Commit("assign", self, o, "instance", out, MaxScopeClasses)
       /\ scopes' = IF out.err = "none"
                    THEN Append(scopes, Frame(self, o, TRUE))
                    ELSE scopes
       /\ last' = Call("enter", self, o, "instance", out, out.err = "none",
                       FALSE, out.err)

\* with role.played_by(subj): the generator runs up to its yield
PlayedByEnter(self, o) ==
    /\ Len(scopes) < MaxDepth
    /\ UNCHANGED aux
    /\ IF IsInstance(classes, objects, o, self)
       THEN /\ scopes' = Append(scopes, Frame(self, o, FALSE))
            /\ last' = Call("enter", self, o, "instance",
                            Unchanged(Now, o, TRUE, "none", {}), FALSE, FALSE, "none")
            /\ UNCHANGED <<classes, cache, objects, dicts, base, oplog>>
       ELSE LET out == assign(Now, self, o, "instance") IN
            /\ Commit("assign", self, o, "instance", out, MaxScopeClasses)
            /\ scopes' = IF out.err = "none"
                         THEN Append(scopes, Frame(self, o, TRUE))
                         ELSE scopes
            /\ last' = Call("enter", self, o, "instance", out, out.err = "none",
                            FALSE, out.err)

\* what leaves the with statement: a failure of the revoke, else the body's
Propagated(out, raised) ==
    IF out.err # "none" THEN out.err ELSE IF raised THEN "body" ELSE "none"

\* a variant that revokes on every exit path, whatever branch was taken
PlayedByLeaveAlways(frame, raised) ==
    revoke(Now, frame.role, frame.subj, "instance")

\* the exit path of played_by: the generator is resumed after its yield,
\* normally or with the failure the body raised
PlayedByLeave(frame, raised) ==
    IF frame.assigned
    THEN revoke(Now, frame.role, frame.subj, "instance")
    ELSE Unchanged(Now, frame.subj, TRUE, "none", {})

\* the with statement is left, normally or by a failure of its body
PlayedByExit(raised) ==
    /\ scopes # << >>
    /\ UNCHANGED aux
    /\ LET frame == scopes[Len(scopes)]
           out == PlayedByLeave(frame, raised) IN
       /\ Commit("revoke", frame.role, frame.subj, "instance", out, MaxScopeClasses)
       /\ scopes' = SubSeq(scopes, 1, Len(scopes) - 1)
       /\ last' = Call("exit", frame.role, frame.subj, "instance", out,
                       frame.assigned, raised, Propagated(out, raised))

\* the record of a call made by a body: which call, of which role, on whom,
\* and the failure it raised
InBody(op, self, o, out) ==
    [op |-> op, role |-> self, subj |-> o, method |-> "instance",
     before |-> Object, result |-> 0, err |-> out.err, names |-> {},
     assigned |-> FALSE, raised |-> FALSE]

\* role.assign(subj) in the body of a scope, or outside of any
BodyAssign(self, o) ==
    LET out == assign(Now, self, o, "instance") IN
    /\ Commit("assign", self, o, "instance", out, MaxScopeClasses)
    /\ last' = InBody("body.assign", self, o, out)
    /\ UNCHANGED <<scopes, aux>>

\* role.revoke(subj) in the body of a scope, or outside of any
BodyRevoke(self, o) ==
    LET out == revoke(Now, self, o, "instance") IN
    /\ Commit("revoke", self, o, "instance", out, MaxScopeClasses)
    /\ last' = InBody("body.revoke", self, o, out)
    /\ UNCHANGED <<scopes, aux>>

NextScope ==
    \/ \E self \in ScopeRoles : PlayedByEnter(self, ScopeSubject)
    \/ \E raised \in BOOLEAN : PlayedByExit(raised)
    \/ \E self \in ScopeRoles : BodyAssign(self, ScopeSubject)
    \/ \E self \in ScopeRoles : BodyRevoke(self, ScopeSubject)

SpecScope == Init /\ [][NextScope]_vars

(***************************************************************************)
(* The context module (src/roles/context.py): a thread-local stack of      *)
(* context objects, and the ManagedContext guard that context(ctxobj,      *)
(* **bindings) returns.  A with statement enters the guard and exits it.   *)
(***************************************************************************)
\* a variant with one stack list for all threads
SharedStack(t) == 1

\* threading.local: the stack list a thread finds in context.__dict__
LocalStack(t) == t

\* bindings: the keyword arguments, in the order they were written
Binding(var, role) == [var |-> var, role |-> role]

\* CurrentContextManager.__call__: the guard holds the caller's stack list
ManagedContext(t, ctx, bindings) ==
    [stack |-> LocalStack(t), ctx |-> ctx, bindings |-> bindings]

\* getattr(ctx, var)
GetAttr(st, o, var) == st.dicts[st.objects[o].dict][var]

\* list.insert(0, ctx)
StackPushFront(s, ctx) == <<ctx>> \o s

\* list.append(ctx)
StackPush(s, ctx) == Append(s, ctx)

\* a variant that reads the last element and leaves it on the list
StackPeek(s) == [ctx |-> s[Len(s)], stack |-> s]

\* list.pop(): the last element and the list without it
StackPop(s) == [ctx |-> s[Len(s)], stack |-> SubSeq(s, 1, Len(s) - 1)]

\* a variant that applies the first binding only
BindFirst(st, ctx, bindings, calls) ==
    IF bindings = << >> THEN [st |-> st, err |-> "none", calls |-> calls]
    ELSE LET b == Head(bindings)
             subj == GetAttr(st, ctx, b.var)
             out == assign(st, b.role, subj, "instance")
         IN IF out.err # "none"
            THEN [st |-> st, err |-> out.err, calls |-> calls]
            ELSE [st |-> After(st, out), err |-> "none",
                  calls |-> Append(calls, [role |-> b.role, subj |-> subj])]

RECURSIVE BindAll(_, _, _, _)
\* for var, role in self.bindings.items(): role.assign(getattr(ctx, var))
\* [st, err, calls]: the loop stops at the first assign that raises
BindAll(st, ctx, bindings, calls) ==
    IF bindings = << >> THEN [st |-> st, err |-> "none", calls |-> calls]
    ELSE LET b == Head(bindings)
             subj == GetAttr(st, ctx, b.var)
             out == assign(st, b.role, subj, "instance")
         IN IF out.err # "none"
            THEN [st |-> st, err |-> out.err, calls |-> calls]
            ELSE BindAll(After(st, out), ctx, Tail(bindings),
                         Append(calls, [role |-> b.role, subj |-> subj]))

\* a variant that revokes nothing
UnbindNone(st, ctx, bindings, calls) == [st |-> st, err |-> "none", calls |-> calls]

RECURSIVE UnbindAll(_, _, _, _)
\* for var, role in self.bindings.items(): role.revoke(getattr(ctx, var))
UnbindAll(st, ctx, bindings, calls) ==
    IF bindings = << >> THEN [st |-> st, err |-> "none", calls |-> calls]
    ELSE LET b == Head(bindings)
             subj == GetAttr(st, ctx, b.var)
             out == revoke(st, b.role, subj, "instance")
         IN IF out.err # "none"
            THEN [st |-> st, err |-> out.err, calls |-> calls]
            ELSE UnbindAll(After(st, out), ctx, Tail(bindings),
                           Append(calls, [role |-> b.role, subj |-> subj]))

\* the record of a call into the context module: the thread, the context
\* object, the value returned (0: None), the error raised, the calls on
\* roles it made, in order, and for an exit the calls its enter had made
ContextCall(op, t, ctx, res, e, calls, applied, raised) ==
    [op |-> op, thread |-> t, ctx |-> ctx, result |-> res, err |-> e,
     calls |-> calls, applied |-> applied, raised |-> raised]

\* the state after __enter__ whose loop over the bindings had outcome b
Entered(t, g, n, b) ==
    /\ Len(b.st.classes) <= NStatic + n
    /\ stacks' = [stacks EXCEPT ![g.stack] = StackPush(@, g.ctx)]
    /\ classes' = b.st.classes
    /\ cache' = b.st.cache
    /\ objects' = b.st.objects
    /\ guards' = IF b.err = "none"
                 THEN [guards EXCEPT ![t] = Append(@, [guard |-> g, applied |-> b.calls,
                                                      entered |-> stacks[g.stack]])]
                 ELSE guards
    /\ last' = ContextCall("enter", t, g.ctx, IF b.err = "none" THEN g.ctx ELSE 0,
                           b.err, b.calls, << >>, FALSE)
    /\ UNCHANGED <<dicts, scopes, base, oplog, pcs, factories, lookups>>

\* ManagedContext.__enter__ of a guard made by thread t, in thread t, in a
\* behaviour that builds at most n composite classes
Enter(t, g, n) == Entered(t, g, n, BindAll(Now, g.ctx, g.bindings, << >>))

\* the state after __exit__ whose loop over the bindings had outcome u
Unbound(t, open, raised, n, u) ==
    /\ Len(u.st.classes) <= NStatic + n
    /\ classes' = u.st.classes
    /\ cache' = u.st.cache
    /\ objects' = u.st.objects
    /\ last' = ContextCall("exit", t, open.guard.ctx, 0,
                           IF u.err # "none" THEN u.err
                           ELSE IF raised THEN "body" ELSE "none",
                           u.calls, open.applied, raised)

\* a variant without the assert on what was popped
PoppedUnchecked(t, open, raised, n, p) ==
    /\ stacks' = [stacks EXCEPT ![open.guard.stack] = p.stack]
    /\ Unbound(t, open, raised, n, UnbindAll(Now, p.ctx, open.guard.bindings, << >>))

\* the rest of __exit__ after ctx = self.stack.pop() gave p
Popped(t, open, raised, n, p) ==
    /\ stacks' = [stacks EXCEPT ![open.guard.stack] = p.stack]
    /\ IF p.ctx # open.guard.ctx
       THEN /\ last' = ContextCall("exit", t, open.guard.ctx, 0, "assert", << >>,
                                   open.applied, raised)
            /\ UNCHANGED <<classes, cache, objects>>
       ELSE Unbound(t, open, raised, n,
                    UnbindAll(Now, p.ctx, open.guard.bindings, << >>))

\* ManagedContext.__exit__ of the guard open.guard, called in thread t
ExitCalled(t, open, raised, n) ==
    /\ IF stacks[open.guard.stack] = << >>
       THEN /\ last' = ContextCall("exit", t, open.guard.ctx, 0, "index", << >>,
                                   open.applied, raised)
            /\ UNCHANGED <<classes, cache, objects, stacks>>
       ELSE Popped(t, open, raised, n, StackPop(stacks[open.guard.stack]))
    /\ UNCHANGED <<dicts, scopes, base, oplog, pcs, factories, lookups>>

\* __exit__ of the guard that thread t entered last, called as the with
\* statement is left
Exited(t, open, raised, n) ==
    /\ guards' = [guards EXCEPT ![t] = SubSeq(@, 1, Len(@) - 1)]
    /\ ExitCalled(t, open, raised, n)

\* ManagedContext.__exit__ of the innermost guard of thread t; raised: the
\* body raised
Exit(t, raised, n) ==
    /\ guards[t] # << >>
    /\ Exited(t, guards[t][Len(guards[t])], raised, n)

\* context.current_context in thread t
Current(t) ==
    LET s == stacks[LocalStack(t)] IN
    /\ last' = ContextCall("current", t, 0, IF s = << >> THEN 0 ELSE s[Len(s)],
                           "none", << >>, << >>, FALSE)
    /\ UNCHANGED <<classes, cache, objects, dicts, scopes, base, oplog, stacks, guards, pcs, factories,
                   lookups>>

\* the objects of the scenarios: two accounts, the transfer between them,
\* two plain context objects and a transfer in the other direction
SourceAccount == 1
SinkAccount == 2
TransferObject == 3
ContextObjects == {4, 5}
TransferBack == 6

InitContext ==
    /\ classes = StaticClasses
    /\ cache = [k \in {} |-> 0]
    /\ objects = <<[cls |-> PaymentAccount, dict |-> 1],
                   [cls |-> PaymentAccount, dict |-> 2],
                   [cls |-> TransferMoney, dict |-> 3],
                   [cls |-> ContextClass, dict |-> 4],
                   [cls |-> ContextClass, dict |-> 5],
                   [cls |-> TransferMoney, dict |-> 6]>>
    /\ dicts = <<[n \in {"balance"} |-> 1000], [n \in {"balance"} |-> 0],
                 [n \in {"source", "sink"} |-> IF n = "source" THEN SourceAccount
                                             ELSE SinkAccount],
                 [n \in {} |-> 0], [n \in {} |-> 0],
                 [n \in {"source", "sink"} |-> IF n = "source" THEN SinkAccount
                                             ELSE SourceAccount]>>
    /\ base = <<PaymentAccount, PaymentAccount, TransferMoney, ContextClass,
                ContextClass, TransferMoney>>
    /\ scopes = << >>
    /\ oplog = << << >>, << >>, << >>, << >>, << >>, << >> >>
    /\ last = ContextCall("init", 0, 0, 0, "none", << >>, << >>, FALSE)
    /\ stacks = [t \in Threads |-> << >>]
    /\ guards = [t \in Threads |-> << >>]
    /\ pcs = [t \in Threads |-> Idle]
    /\ factories = [r \in FactoryRoles |-> NoFactory]
    /\ lookups = [k \in {} |-> 0]

(***************************************************************************)
(* Context stacks: two threads enter and exit scopes on the plain context  *)
(* objects (with context(self): no bindings) and ask for the current one.  *)
(***************************************************************************)
\* with context(self): in thread t
ContextEnter(t, ctx) ==
    /\ Len(guards[t]) < MaxCtxDepth
    /\ Enter(t, ManagedContext(t, ctx, << >>), 0)

\* the with statement of thread t is left
ContextExit(t, raised) == Exit(t, raised, 0)

NextContext ==
    \/ \E t \in Threads, ctx \in ContextObjects : ContextEnter(t, ctx)
    \/ \E t \in Threads, raised \in BOOLEAN : ContextExit(t, raised)
    \/ \E t \in Threads : Current(t)

SpecContext == InitContext /\ [][NextContext]_vars

(***************************************************************************)
(* Guards: context(obj) returns a guard object that its caller may hand to *)
(* another thread and whose methods can be called outside of a with        *)
(* statement.  Two threads enter guards made by the first thread, leave    *)
(* their with statements, and call __exit__ of the guard of their          *)
(* innermost with statement in its body.                                   *)
(***************************************************************************)
\* the thread that calls context(ctx) and hands the guards out
GuardMakers == {1}

\* g = context(ctx) in thread maker; with g: in thread t
GuardEnter(t, maker, ctx) ==
    /\ Len(guards[t]) < MaxCtxDepth
    /\ Len(stacks[LocalStack(maker)]) < MaxStack
    /\ Enter(t, ManagedContext(maker, ctx, << >>), 0)

\* the with statement of thread t is left
GuardExit(t, raised) == Exit(t, raised, 0)

\* g.__exit__(None, None, None) in the body of the with statement on g
GuardExitCall(t) ==
    /\ guards[t] # << >>
    /\ ExitCalled(t, guards[t][Len(guards[t])], FALSE, 0)
    /\ UNCHANGED guards

NextGuards ==
    \/ \E t \in Threads, maker \in GuardMakers, ctx \in ContextObjects :
          GuardEnter(t, maker, ctx)
    \/ \E t \in Threads, raised \in BOOLEAN : GuardExit(t, raised)
    \/ \E t \in Threads : GuardExitCall(t)

SpecGuards == InitContext /\ [][NextGuards]_vars

(***************************************************************************)
(* Methods run in context: in_context(func) wraps a method so that it runs *)
(* inside "with context(self):", and the body reads and writes attributes  *)
(* of the current context through context.name (test_context_set_values). *)
(* The receivers are the transfer and a plain context object.              *)
(***************************************************************************)
Receivers == {TransferObject, 4}
AttributeNames == {"foo"}

\* in_context_wrapper(self, ...) called in thread t: the with statement is
\* entered, func(self, ...) starts
InContextCall(t, self) ==
    /\ Len(guards[t]) < MaxCtxDepth
    /\ Enter(t, ManagedContext(t, self, << >>), 0)

\* func returns or raises in thread t: the with statement is left and the
\* wrapper returns what func returned or lets the error through
InContextReturn(t, raised) == Exit(t, raised, 0)

\* the record of an attribute access through context
AttributeCall(op, t, ctx, key, val, res, e) ==
    [op |-> op, thread |-> t, ctx |-> ctx, key |-> key, value |-> val,
     result |-> res, err |-> e]

\* a variant that forwards to the outermost context of the thread
outermost_context(t) ==
    LET s == stacks[LocalStack(t)] IN IF s = << >> THEN 0 ELSE s[1]

\* the value of current_context in thread t (0: None)
current_context(t) ==
    LET s == stacks[LocalStack(t)] IN IF s = << >> THEN 0 ELSE s[Len(s)]

\* context.key in thread t: getattr(self.current_context, key), for a name
\* that no class defines
ContextGetAttr(t, key) ==
    LET cur == current_context(t)
        d == IF cur = 0 THEN [n \in {} |-> 0] ELSE dicts[objects[cur].dict] IN
    /\ last' = IF key \in DOMAIN d
               THEN AttributeCall("getattr", t, cur, key, 0, d[key], "none")
               ELSE AttributeCall("getattr", t, cur, key, 0, 0, "attribute")
    /\ UNCHANGED <<classes, cache, objects, dicts, scopes, base, oplog, stacks,
                   guards, pcs, factories, lookups>>

\* context.key = val in thread t: setattr(self.current_context, key, val)
ContextSetAttr(t, key, val) ==
    LET cur == current_context(t) IN
    /\ IF cur = 0
       THEN /\ last' = AttributeCall("setattr", t, cur, key, val, 0, "attribute")
            /\ UNCHANGED dicts
       ELSE LET d == dicts[objects[cur].dict] IN
            /\ last' = AttributeCall("setattr", t, cur, key, val, 0, "none")
            /\ dicts' = [dicts EXCEPT ![objects[cur].dict] =
                            [n \in DOMAIN d \cup {key} |-> IF n = key THEN val ELSE d[n]]]
    /\ UNCHANGED <<classes, cache, objects, scopes, base, oplog, stacks, guards,
                   pcs, factories, lookups>>

NextInContext ==
    \/ \E t \in Threads, self \in Receivers : InContextCall(t, self)
    \/ \E t \in Threads, raised \in BOOLEAN : InContextReturn(t, raised)
    \/ \E t \in Threads : Current(t)
    \/ \E t \in Threads, key \in AttributeNames : ContextGetAttr(t, key)
    \/ \E t \in Threads, key \in AttributeNames, val \in Values :
          ContextSetAttr(t, key, val)

SpecInContext == InitContext /\ [][NextInContext]_vars

(***************************************************************************)
(* The money transfer of src/example.py: TransferMoney.perform_transfer    *)
(* enters a context that binds source=MoneySource and sink=MoneySink and   *)
(* calls transfer_to on the source in its body; a transfer can be          *)
(* performed inside another one.                                           *)
(***************************************************************************)
TransferObjects == {TransferObject, TransferBack}
TransferThread == 1
Amounts == {100, 600}

\* the keyword arguments of perform_transfer's with statement
TransferBindings == <<Binding("source", MoneySource), Binding("sink", MoneySink)>>

\* attribute lookup on the type: the name is in the dict of a class of the MRO
HasMethod(tbl, cls, name) == \E c \in Range(tbl[cls].mro) : name \in tbl[c].dict

Balance(dcts, objs, o) == dcts[objs[o].dict]["balance"]

\* self.balance -= amount / self.balance += amount
AddBalance(dcts, objs, o, amount) ==
    [dcts EXCEPT ![objs[o].dict]["balance"] = @ + amount]

\* a variant without the test of the balance
transfer_to_unchecked(dcts, objs, tbl, src, amount, sink) ==
    IF ~HasMethod(tbl, objs[src].cls, "transfer_to")
    THEN [dicts |-> dcts, err |-> "attribute"]
    ELSE LET withdrawn == AddBalance(dcts, objs, src, 0 - amount) IN
         IF ~HasMethod(tbl, objs[sink].cls, "receive")
         THEN [dicts |-> withdrawn, err |-> "attribute"]
         ELSE [dicts |-> AddBalance(withdrawn, objs, sink, amount), err |-> "none"]

\* src.transfer_to(amount, sink): MoneySource.transfer_to, which calls
\* MoneySink.receive; [dicts, err]
transfer_to(dcts, objs, tbl, src, amount, sink) ==
    IF ~HasMethod(tbl, objs[src].cls, "transfer_to")
    THEN [dicts |-> dcts, err |-> "attribute"]
    ELSE IF Balance(dcts, objs, src) >= amount
         THEN LET withdrawn == AddBalance(dcts, objs, src, 0 - amount) IN
              IF ~HasMethod(tbl, objs[sink].cls, "receive")
              THEN [dicts |-> withdrawn, err |-> "attribute"]
              ELSE [dicts |-> AddBalance(withdrawn, objs, sink, amount), err |-> "none"]
         ELSE [dicts |-> dcts, err |-> "none"]

\* with context(self, source=MoneySource, sink=MoneySink) as ctx:
PerformEnter(ctx) ==
    /\ Len(guards[TransferThread]) < MaxCtxDepth
    /\ Enter(TransferThread, ManagedContext(TransferThread, ctx, TransferBindings),
             MaxTransferClasses)

\* ctx.source.transfer_to(amount, ctx.sink) in the body of the innermost scope
PerformTransfer(amount) ==
    /\ guards[TransferThread] # << >>
    /\ LET ctx == guards[TransferThread][Len(guards[TransferThread])].guard.ctx
           src == GetAttr(Now, ctx, "source")
           sink == GetAttr(Now, ctx, "sink")
           out == transfer_to(dicts, objects, classes, src, amount, sink) IN
       /\ dicts' = out.dicts
       /\ last' = [op |-> "transfer", thread |-> TransferThread, ctx |-> ctx,
                   amount |-> amount, err |-> out.err]
    /\ UNCHANGED <<classes, cache, objects, scopes, base, oplog, stacks, guards, pcs, factories,
                   lookups>>

\* the with statement of perform_transfer is left
PerformExit(raised) == Exit(TransferThread, raised, MaxTransferClasses)

NextTransfer ==
    \/ \E ctx \in TransferObjects : PerformEnter(ctx)
    \/ \E amount \in Amounts : PerformTransfer(amount)
    \/ \E raised \in BOOLEAN : PerformExit(raised)

SpecTransfer == InitContext /\ [][NextTransfer]_vars

(***************************************************************************)
(* Bindings: one thread enters and exits scopes with keyword bindings on   *)
(* two context objects whose slots source and sink hold an account and a   *)
(* person; roles are also assigned directly, and the body of a scope       *)
(* stores another object in a slot of its context object.                  *)
(***************************************************************************)
BindThread == 1
BindSubjects == {1, 2}
BindContexts == {3, 4}
BindRoles == {MoneySource, MoneySink, Incognito}

\* the keyword arguments of the with statements: Incognito clashes with
\* Person on the member am
BindingLists ==
    {<<Binding("source", MoneySource), Binding("sink", MoneySink)>>,
     <<Binding("source", MoneySource), Binding("sink", Incognito)>>}

InitBindings ==
    /\ classes = StaticClasses
    /\ cache = [k \in {} |-> 0]
    /\ objects = <<[cls |-> PaymentAccount, dict |-> 1],
                   [cls |-> Person, dict |-> 2],
                   [cls |-> ContextClass, dict |-> 3],
                   [cls |-> ContextClass, dict |-> 4]>>
    /\ dicts = <<[n \in {"balance"} |-> 1000], [n \in {"name"} |-> 1],
                 [n \in {"source", "sink"} |-> IF n = "source" THEN 1 ELSE 2],
                 [n \in {"source", "sink"} |-> IF n = "source" THEN 2 ELSE 1]>>
    /\ base = <<PaymentAccount, Person, ContextClass, ContextClass>>
    /\ scopes = << >>
    /\ oplog = << << >>, << >>, << >>, << >> >>
    /\ last = ContextCall("init", 0, 0, 0, "none", << >>, << >>, FALSE)
    /\ stacks = [t \in Threads |-> << >>]
    /\ guards = [t \in Threads |-> << >>]
    /\ pcs = [t \in Threads |-> Idle]
    /\ factories = [r \in FactoryRoles |-> NoFactory]
    /\ lookups = [k \in {} |-> 0]

\* with context(ctx, source=..., sink=...):
BindEnter(ctx, bindings) ==
    /\ Len(stacks[LocalStack(BindThread)]) < MaxStack
    /\ Enter(BindThread, ManagedContext(BindThread, ctx, bindings), MaxBindClasses)

\* the with statement is left
BindExit(raised) == Exit(BindThread, raised, MaxBindClasses)

\* role.assign(subj), made outside of every scope
DirectAssign(self, o) ==
    LET out == assign(Now, self, o, "instance") IN
    /\ guards[BindThread] = << >>
    /\ Len(out.classes) <= NStatic + MaxBindClasses
    /\ classes' = out.classes
    /\ cache' = out.cache
    /\ objects' = out.objects
    /\ last' = ContextCall("assign", BindThread, 0, out.result, out.err,
                           <<[role |-> self, subj |-> o]>>, << >>, FALSE)
    /\ UNCHANGED <<dicts, scopes, base, oplog, aux>>

\* ctx.var = o in the body of the innermost scope, ctx its context object
Rebind(var, o) ==
    /\ guards[BindThread] # << >>
    /\ LET ctx == guards[BindThread][Len(guards[BindThread])].guard.ctx IN
       /\ dicts[objects[ctx].dict][var] # o
       /\ dicts' = [dicts EXCEPT ![objects[ctx].dict][var] = o]
       /\ last' = ContextCall("setattr", BindThread, ctx, 0, "none", << >>, << >>,
                              FALSE)
    /\ UNCHANGED <<classes, cache, objects, scopes, base, oplog, aux>>

NextBindings ==
    \/ \E ctx \in BindContexts, bs \in BindingLists : BindEnter(ctx, bs)
    \/ \E raised \in BOOLEAN : BindExit(raised)
    \/ \E self \in BindRoles, o \in BindSubjects : DirectAssign(self, o)
    \/ \E var \in {"source", "sink"}, o \in BindSubjects : Rebind(var, o)

SpecBindings == InitBindings /\ [][NextBindings]_vars

(***************************************************************************)
(* Concurrent assigns: each thread assigns roles to its own subject.  A    *)
(* thread can be preempted between the cache lookup of the cached wrapper  *)
(* (cache[key] raising KeyError) and the call of the wrapped newclass      *)
(* whose result it stores; nothing in the wrapper excludes the other       *)
(* thread meanwhile.                                                       *)
(***************************************************************************)
RaceRoles == {Biker, R, U}

\* the subject a thread works on
RaceSubject(t) == t

\* cache[key] = result
CachePut(cch, key, id) ==
    [k \in DOMAIN cch \cup {key} |-> IF k = key THEN id ELSE cch[k]]

\* role.assign(subj) in thread t, up to the lookup in the wrapper: a hit
\* completes the call, a miss leaves the thread before func(*args); a call
\* that returns at once or raises for a conflict changes nothing
AssignLookup(t, self) ==
    LET o == RaceSubject(t)
        cls == objects[o].cls
        key == <<self, cls, AssignBases(Now, cls, self)>> IN
    /\ pcs[t].pc = "idle"
    /\ ~IsSubclass(classes, cls, self)
    /\ overrides(classes, objects, dicts, self, o) = {}
    /\ IF key \in DOMAIN cache
       THEN /\ objects' = instance(classes, objects, cache[key], o).objects
            /\ UNCHANGED pcs
       ELSE /\ pcs' = [pcs EXCEPT ![t] = [pc |-> "miss", role |-> self, subj |-> o,
                                           key |-> key]]
            /\ UNCHANGED objects
    /\ UNCHANGED <<classes, cache, dicts, scopes, base, oplog, last, stacks, guards,
                   factories, lookups>>

\* the rest of the call after a miss: func(*args) builds the class, the
\* wrapper stores it under the key and assign applies it to the subject
AssignBuild(t) ==
    /\ pcs[t].pc = "miss"
    /\ LET key == pcs[t].key
           built == newclass(classes, key[1], key[2], key[3]) IN
       /\ Len(built.classes) <= NStatic + MaxRaceClasses
       /\ classes' = built.classes
       /\ IF built.err = "none"
          THEN /\ cache' = CachePut(cache, key, built.id)
               /\ objects' = instance(built.classes, objects, built.id, pcs[t].subj).objects
          ELSE UNCHANGED <<cache, objects>>
       /\ pcs' = [pcs EXCEPT ![t] = Idle]
    /\ UNCHANGED <<dicts, scopes, base, oplog, last, stacks, guards, factories,
                   lookups>>

\* role.revoke(subj) in thread t that brings the subject back to its base
\* type (no class is looked up for a single component)
RevokeToBase(t, self) ==
    LET o == RaceSubject(t)
        out == revoke(Now, self, o, "instance") IN
    /\ pcs[t].pc = "idle"
    /\ IsInstance(classes, objects, o, self)
    /\ Len(RevokeBases(Now, objects[o].cls, self)) = 1
    /\ objects' = out.objects
    /\ UNCHANGED <<classes, cache, dicts, scopes, base, oplog, last, stacks, guards,
                   pcs, factories, lookups>>

NextRace ==
    \/ \E t \in Threads, self \in RaceRoles : AssignLookup(t, self)
    \/ \E t \in Threads : AssignBuild(t)
    \/ \E t \in Threads, self \in RaceRoles : RevokeToBase(t, self)

SpecRace == Init /\ [][NextRace]_vars

(***************************************************************************)
(* The role factory (src/roles/factory.py): @assignto(cls) registers a     *)
(* role class for a type with the topmost role, whose metaclass becomes    *)
(* RoleFactoryType; lookup, wrapped by cached, finds the role class for a  *)
(* type.                                                                   *)
(***************************************************************************)
FactoryTypes == {A, B, C, D}
FactoryImpls == {MyRole, MySubRole}

\* toprole: the last class of the leading run of roles in rolecls.__mro__
\* (0: there is none)
toprole(tbl, rolecls) ==
    LET mro == tbl[rolecls].mro
        run == {i \in DOMAIN mro : \A j \in 1..i : IsRoleType(tbl[mro[j]].meta)}
    IN IF run = {} THEN 0
       ELSE mro[CHOOSE i \in run : \A j \in run : j <= i]

\* RoleFactoryType.register: [factories, lookups]
register(facs, lks, self, cls, rolecls, strict) ==
    LET f == facs[self]
        put == [k \in DOMAIN f.factory \cup {cls} |->
                    IF k = cls THEN rolecls ELSE f.factory[k]]
    IN IF f.exists
       THEN [factories |-> [facs EXCEPT ![self].factory = put,
                                        ![self].direct = @ \/ rolecls = self],
             lookups |-> lks]
       ELSE [factories |-> [facs EXCEPT ![self] =
                               [exists |-> TRUE, factory |-> (cls :> rolecls),
                                strict |-> strict, direct |-> rolecls = self]],
             lookups |-> [k \in {} |-> 0]]

\* the body of RoleFactoryType.lookup: [err, result]
lookup(tbl, facs, self, cls) ==
    LET reg == facs[self].factory
        mro == tbl[cls].mro
        found == {i \in DOMAIN mro : mro[i] \in DOMAIN reg}
    IN IF found # {}
       THEN [err |-> "none",
             result |-> reg[mro[CHOOSE i \in found : \A j \in found : i <= j]]]
       ELSE IF facs[self].strict THEN [err |-> "norole", result |-> 0]
            ELSE [err |-> "none", result |-> self]

\* cached(lookup): [err, result, lookups]
cached_lookup(tbl, facs, lks, self, cls) ==
    LET key == <<self, cls>> IN
    IF key \in DOMAIN lks
    THEN [err |-> "none", result |-> lks[key], lookups |-> lks]
    ELSE LET found == lookup(tbl, facs, self, cls) IN
         IF found.err = "none"
         THEN [err |-> "none", result |-> found.result,
               lookups |-> lks @@ (key :> found.result)]
         ELSE [err |-> found.err, result |-> 0, lookups |-> lks]

\* assignto(cls)(rolecls): the class decorator applied to a role class
AssignTo(cls, rolecls) ==
    LET top == toprole(classes, rolecls)
        out == register(factories, lookups, top, cls, rolecls, rolecls = top) IN
    /\ top # 0
    /\ classes' = [classes EXCEPT ![top].meta = RoleFactoryTypeMeta]
    /\ factories' = out.factories
    /\ lookups' = out.lookups
    /\ last' = [op |-> "register", role |-> top, cls |-> cls, result |-> rolecls,
                err |-> "none"]
    /\ UNCHANGED <<cache, objects, dicts, scopes, base, oplog, stacks, guards, pcs>>

\* role.lookup(cls), for a role that has become a factory
Lookup(self, cls) ==
    LET out == cached_lookup(classes, factories, lookups, self, cls) IN
    /\ classes[self].meta = RoleFactoryTypeMeta
    /\ lookups' = out.lookups
    /\ last' = [op |-> "lookup", role |-> self, cls |-> cls, result |-> out.result,
                err |-> out.err]
    /\ UNCHANGED <<classes, cache, objects, dicts, scopes, base, oplog, stacks,
                   guards, pcs, factories>>

NextFactory ==
    \/ \E cls \in FactoryTypes, rolecls \in FactoryImpls : AssignTo(cls, rolecls)
    \/ \E self \in FactoryRoles, cls \in FactoryTypes : Lookup(self, cls)

SpecFactory == Init /\ [][NextFactory]_vars

(***************************************************************************)
(* Calls on a factory role: role(subj) and role.revoke(subj) look the role *)
(* class up for type(subj) and hand over to RoleType.assign and            *)
(* RoleType.revoke of that class.  The subjects are two Bs and a D; role   *)
(* classes are registered for A and B, so that D never has a mapping.      *)
(***************************************************************************)
FactorySubjectTypes == <<B, B, D>>
RegisteredTypes == {A, B}

\* the composite classes a behaviour of the factory calls builds at most
MaxFactoryClasses == 3

InitFactory ==
    /\ classes = StaticClasses
    /\ cache = [k \in {} |-> 0]
    /\ objects = [i \in DOMAIN FactorySubjectTypes |->
                     [cls |-> FactorySubjectTypes[i], dict |-> i]]
    /\ dicts = [i \in DOMAIN FactorySubjectTypes |-> InitDict(FactorySubjectTypes[i])]
    /\ base = FactorySubjectTypes
    /\ scopes = << >>
    /\ oplog = [i \in DOMAIN FactorySubjectTypes |-> << >>]
    /\ last = [op |-> "init", role |-> 0, subj |-> 0, method |-> "instance",
               before |-> Object, result |-> 0, err |-> "none", names |-> {},
               assigned |-> FALSE, raised |-> FALSE]
    /\ stacks = [t \in Threads |-> << >>]
    /\ guards = [t \in Threads |-> << >>]
    /\ pcs = [t \in Threads |-> Idle]
    /\ factories = [r \in FactoryRoles |-> NoFactory]
    /\ lookups = [k \in {} |-> 0]

\* RoleFactoryType.assign / __call__
FactoryAssign(self, o, method) ==
    LET lk == cached_lookup(classes, factories, lookups, self, objects[o].cls)
        out == IF lk.err # "none" THEN Unchanged(Now, o, FALSE, lk.err, {})
               ELSE assign(Now, lk.result, o, method) IN
    /\ classes[self].meta = RoleFactoryTypeMeta
    /\ Commit("assign", self, o, method, out, MaxFactoryClasses)
    /\ lookups' = lk.lookups
    /\ last' = Call("assign", self, o, method, out, FALSE, FALSE, out.err)
    /\ UNCHANGED <<scopes, stacks, guards, pcs, factories>>

\* RoleFactoryType.revoke
FactoryRevoke(self, o, method) ==
    LET lk == cached_lookup(classes, factories, lookups, self, objects[o].cls)
        out == IF lk.err # "none" THEN Unchanged(Now, o, FALSE, lk.err, {})
               ELSE revoke(Now, lk.result, o, method) IN
    /\ classes[self].meta = RoleFactoryTypeMeta
    /\ Commit("revoke", self, o, method, out, MaxFactoryClasses)
    /\ lookups' = lk.lookups
    /\ last' = Call("revoke", self, o, method, out, FALSE, FALSE, out.err)
    /\ UNCHANGED <<scopes, stacks, guards, pcs, factories>>

NextFactoryCalls ==
    \/ \E cls \in RegisteredTypes, rolecls \in FactoryImpls : AssignTo(cls, rolecls)
    \/ \E self \in FactoryRoles, o \in Objects : FactoryAssign(self, o, "instance")
    \/ \E self \in FactoryRoles, o \in Objects : FactoryRevoke(self, o, "instance")

SpecFactoryCalls == InitFactory /\ [][NextFactoryCalls]_vars

(***************************************************************************)
(* Roles on subjects of the types of src/test/test_types.py: built-in      *)
(* values, a named tuple, an instance of a class with slots and an         *)
(* instance of a subclass of dict.                                         *)
(***************************************************************************)
TestedTypes == {DictType, ListType, TupleType, Point, Cls, Dict}
TestedRoles == {SimpleRole, Vector}

InitTypes ==
    /\ classes = StaticClasses
    /\ cache = [k \in {} |-> 0]
    /\ \E b \in TestedTypes :
          /\ objects = <<[cls |-> b, dict |-> 1]>>
          /\ dicts = <<InitDict(b)>>
          /\ base = <<b>>
    /\ scopes = << >>
    /\ oplog = << << >> >>
    /\ last = [op |-> "init", role |-> 0, subj |-> 0, method |-> "instance",
               before |-> Object, result |-> 0, err |-> "none", names |-> {},
               assigned |-> FALSE, raised |-> FALSE]
    /\ stacks = [t \in Threads |-> << >>]
    /\ guards = [t \in Threads |-> << >>]
    /\ pcs = [t \in Threads |-> Idle]
    /\ factories = [r \in FactoryRoles |-> NoFactory]
    /\ lookups = [k \in {} |-> 0]

NextTypes ==
    \/ \E self \in TestedRoles, o \in CallSubjects, m \in Methods : Assign(self, o, m)
    \/ \E self \in TestedRoles, o \in CallSubjects, m \in Methods : Revoke(self, o, m)

SpecTypes == InitTypes /\ [][NextTypes]_vars

(***************************************************************************)
(* Vocabulary of the properties.  It reads the class table through the     *)
(* bases of a class, not through the MRO the operations use.               *)
(***************************************************************************)
Subjects == DOMAIN oplog

RECURSIVE Chain(_)
\* a class and the classes it is built from, object excepted
Chain(c) ==
    IF c = Object THEN {}
    ELSE {c} \cup UNION {Chain(classes[c].bases[i]) : i \in DOMAIN classes[c].bases}

\* the role is active on a subject of this type
Plays(c, role) == role \in Chain(c)

\* the member names a class contributes over its whole chain
Members(c) == UNION {classes[x].dict : x \in Chain(c)} \ EXCLUDED

\* the active roles of a type, in order: the components after the first
RolesOf(c) == IF c > NStatic THEN Tail(classes[c].bases) ELSE << >>

InPlace(e, op, role) == e.op = op /\ e.method = "instance" /\ e.role = role

\* the first n calls of both logs are in-place assigns of the same roles
SameAssigns(l1, l2, n) ==
    /\ n <= Len(l1)
    /\ n <= Len(l2)
    /\ \A i \in 1..n : /\ InPlace(l1[i], "assign", l1[i].role)
                       /\ InPlace(l2[i], "assign", l1[i].role)

(***************************************************************************)
(* C1. Cache determinism: two subjects of the same base type to which the  *)
(* same roles were assigned in place, in the same order, got the same      *)
(* composite class object, also when the first subject's role was revoked  *)
(* before the second subject was assigned.                                 *)
(***************************************************************************)
C1_CacheDeterminism ==
    \A o1 \in Subjects, o2 \in Subjects :
        base[o1] = base[o2] =>
            \A n \in 1..Len(oplog[o1]) :
                SameAssigns(oplog[o1], oplog[o2], n)
                    => oplog[o1][n].after = oplog[o2][n].after

\* the first subject was assigned a role and revoked, the second holds the
\* class the first one had
C1_Witness ==
    \E o1 \in Subjects, o2 \in Subjects, r \in Roles :
        /\ o1 # o2
        /\ base[o1] = base[o2]
        /\ Len(oplog[o1]) = 2
        /\ InPlace(oplog[o1][1], "assign", r)
        /\ InPlace(oplog[o1][2], "revoke", r)
        /\ objects[o1].cls = base[o1]
        /\ Len(oplog[o2]) = 1
        /\ InPlace(oplog[o2][1], "assign", r)
        /\ objects[o2].cls = oplog[o1][1].after

(***************************************************************************)
(* C2. An in-place revoke that leaves a subject without active role gives  *)
(* it the base type object itself, the type it was constructed with, not   *)
(* a composite over a one-element component list.                          *)
(***************************************************************************)
C2_LastRoleRestoresBase ==
    \A o \in Subjects :
        oplog[o] # << >> =>
            LET e == oplog[o][Len(oplog[o])] IN
            (InPlace(e, "revoke", e.role) /\ RolesOf(e.after) = << >>)
                => (e.after = base[o] /\ objects[o].cls = base[o])

C2_Witness ==
    \E o \in Subjects :
        /\ Len(oplog[o]) >= 2
        /\ InPlace(oplog[o][Len(oplog[o])], "revoke", oplog[o][Len(oplog[o])].role)
        /\ Len(RolesOf(oplog[o][Len(oplog[o])].before)) = 1
        /\ objects[o].cls = base[o]

(***************************************************************************)
(* C3. Revocation symmetry: an in-place revoke of a role that directly     *)
(* follows the in-place assign of that role gives the subject the type it  *)
(* had before the assign, by identity, also when other roles are active.   *)
(***************************************************************************)
C3_RevocationSymmetry ==
    \A o \in Subjects :
        \A n \in 2..Len(oplog[o]) :
            (/\ InPlace(oplog[o][n - 1], "assign", oplog[o][n].role)
             /\ InPlace(oplog[o][n], "revoke", oplog[o][n].role))
                => oplog[o][n].after = oplog[o][n - 1].before

(***************************************************************************)
(* C4. Order independence: after the in-place assigns of R1 then R2 to a   *)
(* subject that has its base type, revoking both, in either order, ends    *)
(* with the base type itself.                                              *)
(***************************************************************************)
RoundTrip(l, r1, r2, x, y) ==
    /\ Len(l) = 4
    /\ InPlace(l[1], "assign", r1)
    /\ InPlace(l[2], "assign", r2)
    /\ InPlace(l[3], "revoke", x)
    /\ InPlace(l[4], "revoke", y)

C4_RevokeAnyOrder ==
    \A o \in Subjects, r1 \in Roles, r2 \in Roles :
        (r1 # r2 /\ (\/ RoundTrip(oplog[o], r1, r2, r1, r2)
                     \/ RoundTrip(oplog[o], r1, r2, r2, r1)))
            => (oplog[o][4].after = base[o] /\ objects[o].cls = base[o])

\* one subject revoked in the order of assignment, the other in reverse
C4_Witness ==
    \E o1 \in Subjects, o2 \in Subjects, r1 \in Roles, r2 \in Roles :
        /\ r1 # r2
        /\ RoundTrip(oplog[o1], r1, r2, r1, r2)
        /\ RoundTrip(oplog[o2], r1, r2, r2, r1)
        /\ objects[o1].cls = base[o1]
        /\ objects[o2].cls = base[o2]

(***************************************************************************)
(* C5. History independence: after the in-place assigns of R1 then R2 and  *)
(* the revoke of R1, a subject has the very type of a subject of the same  *)
(* base type to which only R2 was assigned.                                *)
(***************************************************************************)
C5_HistoryIndependence ==
    \A o1 \in Subjects, o2 \in Subjects, r1 \in Roles, r2 \in Roles :
        (/\ base[o1] = base[o2]
         /\ r1 # r2
         /\ Len(oplog[o1]) = 3
         /\ InPlace(oplog[o1][1], "assign", r1)
         /\ InPlace(oplog[o1][2], "assign", r2)
         /\ InPlace(oplog[o1][3], "revoke", r1)
         /\ Len(oplog[o2]) = 1
         /\ InPlace(oplog[o2][1], "assign", r2))
            => objects[o1].cls = objects[o2].cls

(***************************************************************************)
(* C6. Conflict detection: an assign of a role the subject does not play   *)
(* raises the conflict error exactly when the member names of the role's   *)
(* chain, the excluded names left out, meet the member names of the        *)
(* subject's type or its instance field names, and the error lists         *)
(* exactly the names they share.                                           *)
(***************************************************************************)
Shared(role, c, o) == Members(role) \cap (Members(c) \cup DOMAIN dicts[objects[o].dict])

C6_ConflictDetection ==
    (last.op = "assign" /\ ~Plays(last.before, last.role))
        => LET shared == Shared(last.role, last.before, last.subj) IN
           /\ (last.err = "conflict") <=> (shared # {})
           /\ (last.err = "conflict") => (last.names = shared)
           /\ (last.err # "conflict") => (last.names = {})

\* a role of a chain refused for a name the caller stored on the instance
C6_Witness ==
    /\ last.op = "assign"
    /\ last.role = U
    /\ ~Plays(last.before, U)
    /\ Plays(last.before, R)
    /\ last.err = "conflict"
    /\ last.names = {"b"}
    /\ "b" \notin Members(last.before)

(***************************************************************************)
(* C7. No partial application: an assign that raises the conflict error    *)
(* leaves every subject's type and active roles and every field value as   *)
(* they were.                                                              *)
(***************************************************************************)
C7_NoPartialApplication ==
    [][(last'.op = "assign" /\ last'.err = "conflict")
          => (objects' = objects /\ dicts' = dicts)]_vars

C7_Witness ==
    /\ last.op = "assign"
    /\ last.err = "conflict"
    /\ RolesOf(objects[last.subj].cls) # << >>
    /\ objects[last.subj].cls = last.before
    /\ "b" \in DOMAIN dicts[objects[last.subj].dict]

(***************************************************************************)
(* C8. Idempotent reassignment: an assign of a role the subject already    *)
(* plays returns the subject itself, with either strategy, raises nothing  *)
(* (the conflict check is not run) and changes no type and no role list.   *)
(***************************************************************************)
C8_IdempotentReassign ==
    [][(last'.op = "assign" /\ Plays(objects[last'.subj].cls, last'.role))
          => (/\ last'.result = last'.subj
              /\ last'.err = "none"
              /\ objects' = objects
              /\ classes' = classes)]_vars

\* the cloning strategy, on a role whose own names the subject's type has
C8_Witness ==
    /\ last.op = "assign"
    /\ last.method = "clone"
    /\ last.role = U
    /\ Plays(last.before, U)
    /\ Shared(U, last.before, last.subj) # {}
    /\ last.result = last.subj
    /\ objects[last.subj].cls = last.before

(***************************************************************************)
(* C9. A revoke of a role the subject does not play returns the subject    *)
(* itself and changes no type and no role list.                            *)
(***************************************************************************)
C9_RevokeInactiveNoop ==
    [][(last'.op = "revoke" /\ ~Plays(objects[last'.subj].cls, last'.role))
          => (/\ last'.result = last'.subj
              /\ last'.err = "none"
              /\ objects' = objects
              /\ classes' = classes)]_vars

\* a subject with another role active
C9_Witness ==
    /\ last.op = "revoke"
    /\ ~Plays(last.before, last.role)
    /\ RolesOf(last.before) # << >>
    /\ last.result = last.subj
    /\ objects[last.subj].cls = last.before

(***************************************************************************)
(* C10. Scoped revert: when a played_by scope that assigned its role on    *)
(* entry is left, normally or by a failure of the body, the subject does   *)
(* not play the role any more, and the failure of the body propagates.     *)
(***************************************************************************)
C10_ScopedRevert ==
    (last.op = "exit" /\ last.assigned)
        => (/\ ~Plays(objects[last.subj].cls, last.role)
            /\ last.raised => last.err = "body")

(***************************************************************************)
(* Vocabulary of the scope properties.                                     *)
(***************************************************************************)
\* the step opens a scope / closes the innermost scope
Enters == Len(scopes') = Len(scopes) + 1
Exits == Len(scopes') = Len(scopes) - 1

Innermost == scopes[Len(scopes)]

\* the innermost scope is nested in a scope for the same role and subject
NestedInSame ==
    \E i \in 1..(Len(scopes) - 1) :
        scopes[i].role = Innermost.role /\ scopes[i].subj = Innermost.subj

\* since the scope assigned its role, no call has changed the subject's type
Untouched(frame) ==
    /\ frame.assigned
    /\ oplog[frame.subj] # << >>
    /\ LET e == oplog[frame.subj][Len(oplog[frame.subj])] IN
       /\ InPlace(e, "assign", frame.role)
       /\ e.before = frame.before
       /\ e.after = objects[frame.subj].cls

(***************************************************************************)
(* C11. A played_by scope entered while its role is already active on the  *)
(* subject yields the subject itself and changes nothing on entry, and     *)
(* its exit does not revoke the role: the exit changes no type, so the     *)
(* role that is active when the scope ends is active afterwards.           *)
(***************************************************************************)
C11_ActiveOnEntryKept ==
    [][/\ (Enters /\ Plays(objects[scopes'[Len(scopes')].subj].cls,
                           scopes'[Len(scopes')].role))
            => (/\ last'.result = scopes'[Len(scopes')].subj
                /\ last'.err = "none"
                /\ objects' = objects)
       /\ (Exits /\ Plays(Innermost.before, Innermost.role))
            => (/\ objects' = objects
                /\ last'.err = (IF last'.raised THEN "body" ELSE "none")
                /\ \A s \in {Innermost.subj}, r \in {Innermost.role} :
                      Plays(objects[s].cls, r) => Plays(objects[s].cls, r)')]_vars

\* the role was assigned directly, then a scope for it was entered and left
C11_Witness ==
    /\ last.op = "exit"
    /\ ~last.assigned
    /\ scopes = << >>
    /\ oplog[last.subj] # << >>
    /\ InPlace(oplog[last.subj][Len(oplog[last.subj])], "assign", last.role)
    /\ Plays(objects[last.subj].cls, last.role)

OpenContexts(t) == [i \in 1..Len(guards[t]) |-> guards[t][i].guard.ctx]

EntersContext(t) == Len(guards'[t]) = Len(guards[t]) + 1
ExitsContext(t) == Len(guards'[t]) = Len(guards[t]) - 1

(***************************************************************************)
(* C13. The context stack of a thread is strictly LIFO: an enter appends   *)
(* the entered context (depth plus one), an exit removes the last element, *)
(* which is the context entered most recently and not yet exited (depth    *)
(* minus one), no other step changes the stack, and current_context in a   *)
(* scope is the context entered most recently and not yet exited.          *)
(***************************************************************************)
C13_StrictLifo ==
    [][\A t \in Threads :
          /\ EntersContext(t)
                => stacks'[t] = Append(stacks[t], guards'[t][Len(guards'[t])].guard.ctx)
          /\ ExitsContext(t)
                => (/\ stacks[t] # << >>
                    /\ stacks'[t] = SubSeq(stacks[t], 1, Len(stacks[t]) - 1)
                    /\ stacks[t][Len(stacks[t])] = guards[t][Len(guards[t])].guard.ctx
                    /\ last'.err \in {"none", "body"})
          /\ (guards'[t] = guards[t]) => (stacks'[t] = stacks[t])
          /\ (last'.op = "current" /\ last'.thread = t /\ guards[t] # << >>)
                => last'.result = guards[t][Len(guards[t])].guard.ctx]_vars

\* the first context object entered, then the second, the second exited
C13_Witness ==
    /\ last.op = "exit"
    /\ last.thread = 1
    /\ last.ctx = 5
    /\ stacks[1] = <<4>>
    /\ OpenContexts(1) = <<4>>

(***************************************************************************)
(* C14. current_context asked for by a thread that is in no scope (before  *)
(* its first enter, after its last exit) fails with an error for the       *)
(* missing context and returns no value.                                   *)
(***************************************************************************)
C14_CurrentFailsWhenEmpty ==
    (last.op = "current" /\ guards[last.thread] = << >>)
        => (last.err # "none" /\ last.result = 0)

(***************************************************************************)
(* C15. The stacks are isolated per thread: in every interleaving the      *)
(* stack of a thread holds exactly the contexts of the scopes that thread  *)
(* has entered and not exited, in order, so its depth is the number of its *)
(* own open scopes, and current_context in a thread is never a context     *)
(* only the other thread has entered.                                      *)
(***************************************************************************)
C15_ThreadIsolation ==
    /\ \A t \in Threads : stacks[t] = OpenContexts(t)
    /\ last.op = "current"
          => (last.result = 0 \/ last.result \in Range(OpenContexts(last.thread)))

\* both threads are nested to the full depth, in different context objects
C15_Witness ==
    /\ Len(stacks[1]) >= MaxCtxDepth
    /\ Len(stacks[2]) >= MaxCtxDepth
    /\ Range(stacks[1]) \cap Range(stacks[2]) = {}
    /\ last.op = "current"
    /\ last.result # 0

(***************************************************************************)
(* C16. Under concurrency the builder runs at most once for a cache key    *)
(* and the threads get the same class object: of the composite classes     *)
(* that exist, no two were built for the same key, and no two live         *)
(* subjects of one base type that were assigned the same role carry        *)
(* different class objects.  A composite over a base type and one role is  *)
(* built under the key (role, base type, (base type, role)), so two such   *)
(* composites with equal component lists have the same key.                *)
(***************************************************************************)
C16_OneClassPerKey ==
    /\ \A c1 \in DOMAIN classes, c2 \in DOMAIN classes :
          (c1 > NStatic /\ c2 > NStatic
              /\ Len(classes[c1].bases) = 2
              /\ classes[c1].bases = classes[c2].bases) => c1 = c2
    /\ \A o1 \in Objects, o2 \in Objects :
          (objects[o1].cls > NStatic
              /\ Len(classes[objects[o1].cls].bases) = 2
              /\ classes[objects[o1].cls].bases = classes[objects[o2].cls].bases)
              => objects[o1].cls = objects[o2].cls

(***************************************************************************)
(* C17. An exit pops the frame and then revokes the frame's bindings in    *)
(* the reverse of the order in which the enter applied them: the calls of  *)
(* revoke it makes are, role by role and object by object, the calls of    *)
(* assign its enter made, last first.                                      *)
(***************************************************************************)
Reverse(q) == [i \in 1..Len(q) |-> q[Len(q) + 1 - i]]

C17_ExitRevokesInReverse ==
    (last.op = "exit" /\ last.err \in {"none", "body"})
        => last.calls = Reverse(last.applied)

(***************************************************************************)
(* C18. An enter that returns has pushed the context object, which is      *)
(* then the top of the thread's stack, has returned that object, and has   *)
(* assigned the role of every binding to the object in the binding's slot  *)
(* of the context object: each of these objects plays its role.            *)
(***************************************************************************)
C18_EnterPushesAndBinds ==
    (last.op = "enter" /\ last.err = "none")
        => LET t == last.thread
               g == guards[t][Len(guards[t])].guard IN
           /\ stacks[t] # << >>
           /\ stacks[t][Len(stacks[t])] = last.ctx
           /\ last.result = last.ctx
           /\ g.ctx = last.ctx
           /\ \A i \in DOMAIN g.bindings :
                 Plays(objects[dicts[objects[g.ctx].dict][g.bindings[i].var]].cls,
                       g.bindings[i].role)

\* the transfer entered from outside of any scope: both accounts got a role
C18_Witness ==
    /\ last.op = "enter"
    /\ last.err = "none"
    /\ last.ctx = TransferObject
    /\ Len(guards[TransferThread]) = 1
    /\ Len(last.calls) = 2
    /\ objects[SourceAccount].cls # base[SourceAccount]
    /\ objects[SinkAccount].cls # base[SinkAccount]

(***************************************************************************)
(* C19. The money transfer: in a context that binds source=MoneySource to  *)
(* account A and sink=MoneySink to another account B, transfer_to(amount)  *)
(* with amount <= A.balance takes amount from A.balance and adds it to     *)
(* B.balance, and with amount > A.balance changes no balance; an exit      *)
(* that leaves the thread in no scope leaves both accounts with their      *)
(* base type and their balances as they were.                              *)
(***************************************************************************)
C19_MoneyTransfer ==
    [][/\ last'.op = "transfer"
            => LET a == dicts[objects[last'.ctx].dict]["source"]
                   b == dicts[objects[last'.ctx].dict]["sink"]
                   amount == last'.amount IN
               (a # b /\ Plays(objects[a].cls, MoneySource)
                      /\ Plays(objects[b].cls, MoneySink))
                  => (/\ last'.err = "none"
                      /\ objects' = objects
                      /\ IF amount <= dicts[objects[a].dict]["balance"]
                         THEN /\ dicts'[objects[a].dict]["balance"]
                                    = dicts[objects[a].dict]["balance"] - amount
                              /\ dicts'[objects[b].dict]["balance"]
                                    = dicts[objects[b].dict]["balance"] + amount
                         ELSE dicts' = dicts)
       /\ (ExitsContext(TransferThread) /\ guards'[TransferThread] = << >>)
            => (/\ objects'[SourceAccount].cls = base[SourceAccount]
                /\ objects'[SinkAccount].cls = base[SinkAccount]
                /\ dicts' = dicts)]_vars

\* 1000 and 0, a transfer of 100, the scope left: 900 and 100 on the base type
C19_Witness ==
    /\ last.op = "exit"
    /\ last.ctx = TransferObject
    /\ guards[TransferThread] = << >>
    /\ dicts[objects[SourceAccount].dict]["balance"] = 900
    /\ dicts[objects[SinkAccount].dict]["balance"] = 100
    /\ objects[SourceAccount].cls = PaymentAccount
    /\ objects[SinkAccount].cls = PaymentAccount

(***************************************************************************)
(* C20. Role factory lookup: lookup(role, type) returns the role class     *)
(* registered under the role for the first class of the type's MRO, from   *)
(* most to least specific, that has a registration; when no class of the   *)
(* MRO has one and the role is not strict (the role itself was never       *)
(* registered for a type) it returns the role itself.                      *)
(***************************************************************************)
C20_LookupMostSpecific ==
    last.op = "lookup"
        => LET reg == factories[last.role].factory
               mro == classes[last.cls].mro
               found == {i \in DOMAIN mro : mro[i] \in DOMAIN reg} IN
           IF found # {}
           THEN /\ last.err = "none"
                /\ last.result = reg[mro[CHOOSE i \in found : \A j \in found : i <= j]]
           ELSE ~factories[last.role].direct
                    => (last.err = "none" /\ last.result = last.role)

(***************************************************************************)
(* C21. Role factory strictness: a role is strict exactly when the role    *)
(* itself has been registered for a type, by whichever of its              *)
(* registrations; role(subj) for a strict role and a subject whose type    *)
(* has no registration along its MRO raises the no-role error and leaves   *)
(* the subject's type as it was.                                           *)
(***************************************************************************)
C21_StrictIffDirect ==
    /\ \A r \in FactoryRoles :
          factories[r].exists => (factories[r].strict <=> factories[r].direct)
    /\ (/\ last.op = "assign"
        /\ factories[last.role].direct
        /\ \A c \in Range(classes[last.before].mro) :
              c \notin DOMAIN factories[last.role].factory)
          => /\ last.err = "norole"
             /\ objects[last.subj].cls = last.before

(***************************************************************************)
(* C22. Role factory cache invalidation: after any registers and lookups,  *)
(* role.lookup(T) gives what the uncached walk over the role's current     *)
(* registrations gives, so a registration made after a result was cached   *)
(* shows in the next lookup.                                               *)
(***************************************************************************)
C22_LookupReflectsRegistrations ==
    last.op = "lookup"
        => LET walk == lookup(classes, factories, last.role, last.cls) IN
           /\ last.err = walk.err
           /\ last.result = walk.result

(***************************************************************************)
(* C23. Incompatible subjects: role(subj) with the in-place strategy on a  *)
(* built-in dict, list or tuple value, on a named tuple or on an instance  *)
(* of a class with slots raises an error, and the subject keeps its type.  *)
(***************************************************************************)
FixedLayoutTypes == {DictType, ListType, TupleType, Point, Cls}

C24_CloneSharesState ==
    [][/\ (last'.op \in {"assign", "revoke"} /\ last'.method = "clone")
            => LET s == last'.subj
                   r == last'.result IN
               /\ objects'[s] = objects[s]
               /\ (/\ last'.err = "none"
                   /\ Plays(objects[s].cls, last'.role) <=> last'.op = "revoke")
                     => /\ r \notin DOMAIN objects
                        /\ r \in DOMAIN objects'
                        /\ objects'[r].cls # objects[s].cls
                        /\ objects'[r].dict = objects[s].dict
       /\ \A p, q \in CallValues' :
             dicts'[objects'[p].dict] = dicts'[objects'[q].dict]]_vars

\* a field was written through the clone of the first subject
C24_Witness ==
    /\ last.op = "setattr"
    /\ last.subj > NSubjects
    /\ objects[last.subj].cls # objects[1].cls
    /\ "b" \in DOMAIN dicts[objects[1].dict]

(***************************************************************************)
(* C25. Method-scoping decorator: a call of a method wrapped by in_context *)
(* pushes the receiver on the stack of the calling thread, and while the   *)
(* method runs (no method called from it still running) the receiver is    *)
(* the current context of that thread; when the method returns or raises,  *)
(* the stack of the thread is what it was before the call, and an error of *)
(* the method gets through; neither step applies a role to any object.     *)
(***************************************************************************)
C25_InContextScopesReceiver ==
    [][\A t \in Threads :
          /\ EntersContext(t)
                => (/\ stacks'[t] = Append(stacks[t], last'.ctx)
                    /\ last'.thread = t
                    /\ last'.calls = << >>
                    /\ objects' = objects
                    /\ classes' = classes)
          /\ ExitsContext(t)
                => (/\ stacks'[t] = guards[t][Len(guards[t])].entered
                    /\ last'.err = (IF last'.raised THEN "body" ELSE "none")
                    /\ last'.calls = << >>
                    /\ objects' = objects
                    /\ classes' = classes)
          /\ guards'[t] # << >>
                => (/\ stacks'[t] # << >>
                    /\ stacks'[t][Len(stacks'[t])] = guards'[t][Len(guards'[t])].guard.ctx)
          /\ (last'.op = "current" /\ last'.thread = t /\ guards[t] # << >>)
                => last'.result = guards[t][Len(guards[t])].guard.ctx]_vars

\* a wrapped method of the transfer, called from one of the plain context
\* object, has raised
C25_Witness ==
    /\ last.op = "exit"
    /\ last.raised
    /\ last.err = "body"
    /\ last.ctx = TransferObject
    /\ OpenContexts(last.thread) = <<4>>
    /\ stacks[last.thread] = <<4>>

(***************************************************************************)
(* C26. Attribute forwarding: in a scope, context.name reads the attribute *)
(* of the context object entered last and not yet exited (an error when it *)
(* has none of that name), and context.name = v sets the attribute on that *)
(* object and on no other object, and leaves the stacks as they are.       *)
(***************************************************************************)
C26_ForwardsToInnermost ==
    [][\A t \in Threads :
          (last'.thread = t /\ guards[t] # << >>)
             => LET top == guards[t][Len(guards[t])].guard.ctx
                    d == dicts[objects[top].dict] IN
                /\ last'.op = "getattr"
                      => IF last'.key \in DOMAIN d
                         THEN last'.err = "none" /\ last'.result = d[last'.key]
                         ELSE last'.err = "attribute"
                /\ last'.op = "setattr"
                      => (/\ last'.err = "none"
                          /\ last'.key \in DOMAIN dicts'[objects[top].dict]
                          /\ dicts'[objects[top].dict][last'.key] = last'.value
                          /\ \A n \in DOMAIN d \ {last'.key} :
                                dicts'[objects[top].dict][n] = d[n]
                          /\ \A o \in DOMAIN objects :
                                o # top => dicts'[objects[o].dict] = dicts[objects[o].dict]
                          /\ objects' = objects
                          /\ stacks' = stacks)]_vars

\* written in a method of the transfer called from one of the plain context
\* object, which has another value under the name
C26_Witness ==
    /\ last.op = "setattr"
    /\ OpenContexts(last.thread) = <<4, TransferObject>>
    /\ dicts[objects[TransferObject].dict]["foo"] = 2
    /\ "foo" \in DOMAIN dicts[objects[4].dict]
    /\ dicts[objects[4].dict]["foo"] = 1

(***************************************************************************)
(* C27. Context scope exit on failure: when the body of an entered scope   *)
(* raises, the exit still pops the frame (the stack holds the contexts     *)
(* that are still open, no more), still revokes every role the enter bound *)
(* from the object it bound it to (none of them plays it afterwards), and  *)
(* the error of the body is the error the with statement ends with.        *)
(***************************************************************************)
C27_ExitOnFailure ==
    (last.op = "exit" /\ last.raised)
        => /\ last.err = "body"
           /\ stacks[last.thread] = OpenContexts(last.thread)
           /\ Range(last.calls) = Range(last.applied)
           /\ \A i \in DOMAIN last.applied :
                 ~Plays(objects[last.applied[i].subj].cls, last.applied[i].role)

\* the body of a transfer that was entered from outside of any scope raised
\* after it moved money
C27_Witness ==
    /\ last.op = "exit"
    /\ last.raised
    /\ last.ctx = TransferObject
    /\ Len(last.applied) = 2
    /\ guards[TransferThread] = << >>
    /\ dicts[objects[SinkAccount].dict]["balance"] > 0
    /\ objects[SourceAccount].cls = PaymentAccount

(***************************************************************************)
(* C28. Composite structure: after any successful in-place assigns and     *)
(* revokes on a subject constructed with type B, the subject's type is B   *)
(* when no role is left of those the calls applied, and else a class whose *)
(* bases are B followed by the roles applied and not taken off since, in   *)
(* the order they were applied, each once and each active, and whose name  *)
(* is the names of these components joined by "+".  A call that finds the  *)
(* role active (assign) or not active (revoke) applies and takes off       *)
(* nothing.                                                                *)
(***************************************************************************)
RECURSIVE AppliedRoles(_)
AppliedRoles(log) ==
    IF log = << >> THEN << >>
    ELSE LET e == log[Len(log)]
             before == AppliedRoles(SubSeq(log, 1, Len(log) - 1))
         IN IF e.op = "assign" THEN Append(before, e.role)
            ELSE SelectSeq(before, LAMBDA r : r # e.role)

RECURSIVE JoinedNames(_)
JoinedNames(components) ==
    IF components = << >> THEN << >>
    ELSE classes[Head(components)].name \o JoinedNames(Tail(components))

C29_AssignRevokeFrame ==
    [][\A o \in Subjects :
          objects'[o].cls # objects[o].cls
             => LET e == oplog'[o][Len(oplog'[o])]
                    before == RolesOf(objects[o].cls)
                    after == RolesOf(objects[o].cls)' IN
                /\ e.before = objects[o].cls
                /\ e.after = objects'[o].cls
                /\ e.op = "assign" => after = Append(before, e.role)
                /\ \A r \in Roles :
                      (e.op = "revoke" /\ e.role = r /\ r \in Range(before))
                         => (/\ after = SelectSeq(before, LAMBDA x : x # r)
                             /\ ~Plays(objects[o].cls, r)')
                /\ \A r \in Roles : r \in Range(after) => Plays(objects[o].cls, r)'
                /\ objects'[o].dict = objects[o].dict
                /\ dicts' = dicts
                /\ \A p \in Subjects : p # o => objects'[p] = objects[p]]_vars

\* the first of two roles was taken off and applied again: it stands last
C29_Witness ==
    \E o \in Subjects :
        /\ Len(oplog[o]) = 4
        /\ oplog[o][3].op = "revoke"
        /\ oplog[o][4].op = "assign"
        /\ oplog[o][3].role = oplog[o][1].role
        /\ oplog[o][4].role = oplog[o][1].role
        /\ classes[objects[o].cls].bases
              = <<base[o], oplog[o][2].role, oplog[o][1].role>>

(***************************************************************************)
(* C30. played_by revokes exactly its own role: when a scope that assigned *)
(* its role exits, a role other than the scope's that was active before    *)
(* the scope and is active when it ends is active after the exit, a role   *)
(* other than the scope's that the body has just assigned is active after  *)
(* the exit, and the exit that follows the body's revoke of the scope's    *)
(* role changes nothing.  Active is what the activity test of assign,      *)
(* revoke and played_by reports.                                           *)
(***************************************************************************)
C30_ExitRevokesOwnRole ==
    [][(Exits /\ Innermost.assigned)
          => \A s \in {Innermost.subj}, own \in {Innermost.role},
                was \in {Innermost.before} :
                /\ \A r \in Roles \ {own} :
                      (Plays(was, r) /\ Plays(objects[s].cls, r))
                         => Plays(objects[s].cls, r)'
                /\ \A r \in Roles \ {own} :
                      (/\ last.op = "body.assign" /\ last.err = "none"
                       /\ last.role = r /\ last.subj = s)
                         => Plays(objects[s].cls, r)'
                /\ (/\ last.op = "body.revoke" /\ last.err = "none"
                    /\ last.role = own /\ last.subj = s)
                      => (objects' = objects /\ classes' = classes)]_vars

(***************************************************************************)
(* C31. Enter is all-or-nothing: when an enter fails because the assign of *)
(* one of its bindings fails, the stack of the calling thread is what it   *)
(* was before the enter, and no role is active on an object that did not   *)
(* have it before.                                                         *)
(***************************************************************************)
C31_EnterAllOrNothing ==
    [][(last'.op = "enter" /\ last'.err # "none")
          => /\ stacks' = stacks
             /\ \A o \in BindSubjects, r \in BindRoles :
                   Plays(objects[o].cls, r)' => Plays(objects[o].cls, r)]_vars

(***************************************************************************)
(* C32. Context exit undoes only what enter did: while a frame is on the   *)
(* stack, every role bound by its enter is active on the object it was     *)
(* bound to, also after a nested context that bound the same role to the   *)
(* same object has exited.                                                 *)
(***************************************************************************)
C32_BoundRolesStayActive ==
    \A t \in Threads : \A i \in DOMAIN guards[t] :
        \A j \in DOMAIN guards[t][i].applied :
            Plays(objects[guards[t][i].applied[j].subj].cls,
                  guards[t][i].applied[j].role)

(***************************************************************************)
(* C33. Context exit revokes each binding's role from the object that      *)
(* received it on enter: after an exit that does not fail in the context   *)
(* module, no role bound by its enter is active on the object it was bound *)
(* to, whatever the body stored in the slots of the context object.        *)
(***************************************************************************)
C33_ExitRevokesFromReceiver ==
    [][(ExitsContext(BindThread) /\ last'.err \in {"none", "body"})
          => \A o \in BindSubjects, r \in BindRoles :
                [role |-> r, subj |-> o]
                      \in Range(guards[BindThread][Len(guards[BindThread])].applied)
                   => ~Plays(objects[o].cls, r)']_vars

(***************************************************************************)
(* C34. After an in-place revoke has returned, its role is not active on   *)
(* the subject: the activity test that assign, revoke and played_by use    *)
(* reports false, also for a role that is a supertype of another role      *)
(* that is active on the subject.                                          *)
(***************************************************************************)
C34_RevokedNotActive ==
    (last.op = "revoke" /\ last.method = "instance" /\ last.err = "none")
        => ~IsInstance(classes, objects, last.subj, last.role)

\* the member names a class brings: the fields of the class and of its
\* superclasses, the names every class has excepted
MemberNames(c) == class_fields(classes, c)

(***************************************************************************)
(* C35. No shadowing: after any in-place assigns and revokes the member    *)
(* names of the roles in the component list of a subject are pairwise      *)
(* disjoint and disjoint from the member names of the type the subject was *)
(* constructed with, and an assign of a role that shares a member name     *)
(* with a role in the list is rejected and changes nothing.                *)
(***************************************************************************)
C35_NoShadowing ==
    /\ \A o \in MemberSubjects :
          LET rs == RolesOf(objects[o].cls) IN
          /\ \A i \in DOMAIN rs, j \in DOMAIN rs :
                i < j => MemberNames(rs[i]) \cap MemberNames(rs[j]) = {}
          /\ \A i \in DOMAIN rs : MemberNames(rs[i]) \cap MemberNames(base[o]) = {}
    /\ (/\ last.op = "assign"
        /\ ~Plays(last.before, last.role)
        /\ \E r \in Range(RolesOf(last.before)) :
              MemberNames(r) \cap MemberNames(last.role) # {})
          => (/\ last.err = "conflict"
              /\ objects[last.subj].cls = last.before)

\* with Biker and Role in the list, the assign of Subrole, which brings
\* Role's func, has been rejected
C35_Witness ==
    /\ last.op = "assign"
    /\ last.role = Subrole
    /\ last.err = "conflict"
    /\ last.names = {"func"}
    /\ RolesOf(objects[last.subj].cls) = <<Biker, Role>>

(***************************************************************************)
(* C36. Role factory round trip: when role(subj) on a factory role has     *)
(* changed the type of the subject, the role.revoke(subj) that follows it  *)
(* raises nothing and gives the subject the type it had before the         *)
(* assign.                                                                 *)
(***************************************************************************)
C36_FactoryRoundTrip ==
    [][(/\ last.op = "assign"
        /\ last.err = "none"
        /\ objects[last.subj].cls # last.before
        /\ last'.op = "revoke"
        /\ last'.role = last.role
        /\ last'.subj = last.subj)
          => (/\ last'.err = "none"
              /\ objects'[last.subj].cls = last.before)]_vars

(***************************************************************************)
(* C37. Violated LIFO discipline is fatal: an exit of a guard whose stack  *)
(* is empty raises (IndexError of the pop), and an exit of a guard whose   *)
(* context object is not the one on top of its stack raises (the assert);  *)
(* neither completes normally.                                             *)
(***************************************************************************)
C37_LifoViolationFails ==
    [][\A t \in Threads :
          (last'.op = "exit" /\ last'.thread = t /\ guards[t] # << >>)
             => LET g == guards[t][Len(guards[t])].guard
                    s == stacks[g.stack] IN
                /\ s = << >> => (last'.err = "index" /\ stacks' = stacks)
                /\ (s # << >> /\ s[Len(s)] # g.ctx) => last'.err = "assert"]_vars

\* the second thread has left its last with statement, on a guard made by
\* the first thread, and the exit found the guard's stack empty
C37_Witness ==
    /\ last.op = "exit"
    /\ last.thread = 2
    /\ last.err = "index"
    /\ guards[2] = << >>
    /\ stacks[1] = << >>

(***************************************************************************)
(* C39. A guard pushes onto and pops from the stack of the thread that     *)
(* performs the enter and the exit, whichever thread made the guard: an    *)
(* enter in thread t puts the context object on top of the stack of t and  *)
(* an exit that completes takes the top off the stack of t, and both leave *)
(* the stack of every other thread as it was.                              *)
(***************************************************************************)
C39_StackOfActingThread ==
    [][\A t \in Threads :
          /\ (last'.op = "enter" /\ last'.thread = t)
                => stacks' = [stacks EXCEPT ![LocalStack(t)] = Append(@, last'.ctx)]
          /\ (last'.op = "exit" /\ last'.thread = t /\ last'.err \in {"none", "body"})
                => (/\ stacks[LocalStack(t)] # << >>
                    /\ stacks' = [stacks EXCEPT ![LocalStack(t)] =
                                      SubSeq(@, 1, Len(@) - 1)])]_vars

(***************************************************************************)
(* C38. Cache clear, the part about a process that does not clear: a key   *)
(* of the composite type cache, once cached, maps to the same class object *)
(* for the rest of the process.                                            *)
(***************************************************************************)
C38_CachedKeyStable ==
    [][\A k \in DOMAIN cache : k \in DOMAIN cache' /\ cache'[k] = cache[k]]_vars

\* C38 for one caller: a clear changes no class and no subject, a class
\* stored under a key that was not in the cache is a new class object that
\* no subject carries yet, and a step that is not a clear leaves every
\* cached key with its class
C38_ClearForcesRebuild ==
    [][/\ (DOMAIN cache # {} /\ DOMAIN cache' = {})
            => (objects' = objects /\ classes' = classes)
       /\ \A k \in DOMAIN cache' \ DOMAIN cache :
             /\ cache'[k] \notin DOMAIN classes
             /\ \A o \in Objects : objects[o].cls # cache'[k]
       /\ DOMAIN cache' # {}
            => \A k \in DOMAIN cache : k \in DOMAIN cache' /\ cache'[k] = cache[k]]_vars

\* after a clear the second subject has been given the role the first one
\* has: same components, another class object
C38_Rebuilt ==
    /\ objects[1].cls # objects[2].cls
    /\ objects[1].cls > NStatic
    /\ objects[2].cls > NStatic
    /\ classes[objects[1].cls].bases = classes[objects[2].cls].bases
    /\ Len(classes[objects[1].cls].bases) = 2

====
